---- MODULE Spec2Model ----
(***************************************************************************)
(* Verification model of romeo/asset-contract/contracts/                   *)
(* clarity-bitcoin-mini.clar: the burn-chain header store, the byte-order  *)
(* reversal, the block-header check, the Merkle-proof fold and the         *)
(* was-txid-mined entry point; of the asset contract that mints and burns  *)
(* the sbtc token for Bitcoin transactions proven through it; and of       *)
(* examples/sbtc-send-many.clar, which pays out of the asset contract.     *)
(*                                                                         *)
(* Buffers are sequences of bytes.  A byte is a record: a literal byte     *)
(* carries its value, a byte produced by sha256 carries the (run-length    *)
(* encoded) preimage and its position in the digest, so that sha256 is a   *)
(* deterministic, collision-free function with a 32-byte result and every  *)
(* byte-level operation of the contract (slice?, concat, reversal) acts on *)
(* digests exactly as it acts on literal data.                             *)
(*                                                                         *)
(* A Clarity uint is a 128-bit unsigned integer.  A uint u is represented  *)
(* by the integer u when u is small and by u - 2^128 (a negative integer)  *)
(* when u is within 2^30 of the top of the range.                          *)
(*                                                                         *)
(* Spec explores the whole contract (DEBUG-MODE true): writes to the       *)
(* header store interleaved with the three read-only calls.  SpecMerkle    *)
(* explores verify-merkle-proof alone, over every proof that can be made   *)
(* of the nodes of a Merkle tree.  SpecReverse explores the two byte       *)
(* reversals alone.  SpecAsset explores the owner-only functions of the    *)
(* asset contract, called directly and through another contract, together  *)
(* with the recording of the block header their proofs refer to.           *)
(* SpecToken explores the token: mint, burn, transfer and the burn for a    *)
(* withdrawal request.  SpecRequests explores the withdrawal requests:     *)
(* made, cancelled and burnt.  SpecSendMany explores the sbtc-send-many    *)
(* contract paying lists of recipients from its own balance.  SpecDeploy   *)
(* explores the verifier with DEBUG-MODE false on a growing burn chain.    *)
(* SpecIds explores the numbering of the withdrawal requests.              *)
(* SpecAllowance explores the contract-caller allowances: granted, ended   *)
(* and expiring as the burn chain grows.                                   *)
(***************************************************************************)
EXTENDS Integers, Sequences, FiniteSets, TLC

VARIABLES debug_burn_header_hashes, call, ret,
          contract_owner, bitcoin_wallet_public_key, amounts_by_btc_tx,
          sbtc_balances, sbtc_supply,
          last_request_id, amounts_by_request_id, requests,
          allowance_contract_callers,
          debug_mode, burn_header_hashes,
          send_many_last_request_id, send_many_requests

\* the withdrawal requests of the asset contract
requestVars == <<last_request_id, amounts_by_request_id, requests,
                 allowance_contract_callers>>

\* the state of the asset contract
assetVars == <<contract_owner, bitcoin_wallet_public_key, amounts_by_btc_tx,
               sbtc_balances, sbtc_supply, requestVars>>

\* the state around the two contracts: the value of DEBUG-MODE in the deployed
\* verifier, the header hashes of the burn chain (the block at height h is
\* element h + 1) and the state of the sbtc-send-many contract
outerVars == <<debug_mode, burn_header_hashes,
               send_many_last_request_id, send_many_requests>>

vars == <<debug_burn_header_hashes, call, ret, assetVars, outerVars>>

(***************************************************************************)
(* Bounds of the explored input space.                                     *)
(***************************************************************************)
MaxHeight == 1
MaxLeaves == 3
\* the literal buffers the byte reversals are applied to start at 0 .. MaxSeed
MaxSeed == 60
\* mint and burn are called with the amounts u0 .. uMaxAmount (and 2^128 - 1)
MaxAmount == 1
MaxRequests == 1
\* the withdrawal requests issued where the ids are followed
MaxIssued == 3

(***************************************************************************)
(* Clarity values.                                                         *)
(***************************************************************************)
None == <<>>
Some(x) == <<x>>

OkTrue == [k |-> "ok", v |-> 1]
OkFalse == [k |-> "ok", v |-> 0]
Err(n) == [k |-> "err", v |-> n]
\* (ok n) for a uint n
OkUint(n) == [k |-> "ok-uint", v |-> n]
Bool(b) == [k |-> "bool", v |-> IF b THEN 1 ELSE 0]
RuntimeError == [k |-> "abort", v |-> 0]
Buff(x) == [k |-> "buff", v |-> x]

DEBUG_MODE == TRUE
ERR_HEADER_HEIGHT_MISMATCH == Err(6)
ERR_INVALID_MERKLE_PROOF == Err(7)
ERR_PROOF_TOO_SHORT == Err(8)
ERR_INVALID_BLOCK_HEADER_LENGTH == Err(9)
block_header_merkle_root_start == 36
block_header_merkle_root_end == 68

HashLen == 32
HeaderLen == 80
MaxProofHashes == 14

Lit(v) == [k |-> "lit", pre |-> <<>>, ix |-> v]

\* slice? : none when the range is not inside the sequence
Slice(s, l, r) == IF l > r \/ r > Len(s) THEN None ELSE Some(SubSeq(s, l + 1, r))

\* as-max-len? : none when the sequence is longer than n
AsMaxLen(s, n) == IF Len(s) > n THEN None ELSE Some(s)

\* Run-length encoding of a buffer: maximal runs of bytes of the same origin
\* at consecutive positions.  Decoding a list of runs gives the buffer back,
\* so two buffers have the same encoding only if they are equal.
RECURSIVE CompressFrom(_, _, _)
CompressFrom(x, i, acc) ==
  IF i > Len(x) THEN acc
  ELSE LET b == x[i]
           n == Len(acc)
       IN IF n > 0 /\ acc[n].k = b.k /\ acc[n].to + 1 = b.ix /\ acc[n].pre = b.pre
          THEN CompressFrom(x, i + 1, [acc EXCEPT ![n].to = b.ix])
          ELSE CompressFrom(x, i + 1,
                 Append(acc, [k |-> b.k, pre |-> b.pre, from |-> b.ix, to |-> b.ix]))

Compress(x) == CompressFrom(x, 1, <<>>)

\* sha256 : a 32-byte digest, a different one for every different preimage
sha256(x) == LET p == Compress(x) IN [i \in 1..HashLen |-> [k |-> "sha", pre |-> p, ix |-> i]]

\* buff-to-uint-le : the 16 base-256 digits of the value, least significant
\* first; a buffer shorter than 16 bytes is padded with zero digits
BuffToUintLe(input) == [i \in 1..16 |-> IF i <= Len(input) THEN input[i] ELSE Lit(0)]

\* to-consensus-buff? of a uint : the type byte 0x01, then the 16 digits of
\* the value, most significant first
ToConsensusBuff(digits) == <<Lit(1)>> \o [i \in 1..16 |-> digits[17 - i]]

\* variant: the slice keeps the type byte and drops the last digit
reverse_buff16_with_type_byte(input) == Slice(ToConsensusBuff(BuffToUintLe(input)), 0, 16)[1]

reverse_buff16(input) == Slice(ToConsensusBuff(BuffToUintLe(input)), 1, 17)[1]

\* variant: the two reversed halves are concatenated without being swapped
reverse_buff32_halves_in_place(input) ==
  LET hi == Slice(input, 16, 32)
      lo == Slice(input, 0, 16)
  IN IF hi = None \/ lo = None THEN None
     ELSE IF AsMaxLen(hi[1], 16) = None \/ AsMaxLen(lo[1], 16) = None THEN None
     ELSE AsMaxLen(reverse_buff16(lo[1]) \o reverse_buff16(hi[1]), 32)

\* reverse-buff32 : None stands for the runtime error of unwrap-panic
reverse_buff32(input) ==
  LET hi == Slice(input, 16, 32)
      lo == Slice(input, 0, 16)
  IN IF hi = None \/ lo = None THEN None
     ELSE IF AsMaxLen(hi[1], 16) = None \/ AsMaxLen(lo[1], 16) = None THEN None
     ELSE AsMaxLen(reverse_buff16(hi[1]) \o reverse_buff16(lo[1]), 32)

\* get-burn-block-info? header-hash : the hash of the burn block at the
\* height, none for a height the burn chain has not reached
get_burn_block_info(burn_height) ==
  IF burn_height >= 0 /\ burn_height < Len(burn_header_hashes)
  THEN Some(burn_header_hashes[burn_height + 1]) ELSE None

get_burn_block_header_hash(store, burn_height) ==
  IF debug_mode
  THEN IF burn_height \in DOMAIN store THEN Some(store[burn_height]) ELSE None
  ELSE get_burn_block_info(burn_height)

\* variant: the double hash is compared without the byte reversal
verify_block_header_unreversed(store, header, expected_block_height) ==
  get_burn_block_header_hash(store, expected_block_height) = Some(sha256(sha256(header)))

verify_block_header(store, header, expected_block_height) ==
  get_burn_block_header_hash(store, expected_block_height)
    = Some(reverse_buff32(sha256(sha256(header)))[1])

RECURSIVE Pow2(_)
Pow2(n) == IF n = 0 THEN 1 ELSE 2 * Pow2(n - 1)

\* (+ a b) on uints : None stands for the arithmetic-overflow runtime error
UintAdd(a, b) ==
  IF a >= 0 /\ b >= 0 THEN Some(a + b)
  ELSE IF a < 0 /\ b < 0 THEN None
  ELSE IF a + b >= 0 THEN None ELSE Some(a + b)

\* bit `bit` of val, for bit < 30
is_bit_set(val, bit) == ((val % Pow2(bit + 1)) \div Pow2(bit)) > 0

\* variant: a step is verified as soon as the running hash is the root
inner_merkle_proof_verify_early(ctr, state) ==
  IF state.verified THEN state
  ELSE IF ctr >= Len(state.proof_hashes) THEN [state EXCEPT !.verified = FALSE]
  ELSE LET is_left == is_bit_set(state.path, ctr)
           h1 == IF is_left THEN state.proof_hashes[ctr + 1] ELSE state.cur_hash
           h2 == IF is_left THEN state.cur_hash ELSE state.proof_hashes[ctr + 1]
           next_hash == sha256(sha256(h1 \o h2))
       IN [state EXCEPT !.cur_hash = next_hash, !.verified = (next_hash = state.root_hash)]

\* variant: the running hash goes left when the path bit is set
inner_merkle_proof_verify_swapped(ctr, state) ==
  IF state.verified THEN state
  ELSE IF ctr >= Len(state.proof_hashes) THEN [state EXCEPT !.verified = FALSE]
  ELSE LET is_left == is_bit_set(state.path, ctr)
           h1 == IF is_left THEN state.cur_hash ELSE state.proof_hashes[ctr + 1]
           h2 == IF is_left THEN state.proof_hashes[ctr + 1] ELSE state.cur_hash
           next_hash == sha256(sha256(h1 \o h2))
           is_verified == (1 + ctr = Len(state.proof_hashes)) /\ (next_hash = state.root_hash)
       IN [state EXCEPT !.cur_hash = next_hash, !.verified = is_verified]

inner_merkle_proof_verify(ctr, state) ==
  IF state.verified THEN state
  ELSE IF ctr >= Len(state.proof_hashes) THEN [state EXCEPT !.verified = FALSE]
  ELSE LET path == state.path
           is_left == is_bit_set(path, ctr)
           proof_hashes == state.proof_hashes
           cur_hash == state.cur_hash
           root_hash == state.root_hash
           h1 == IF is_left THEN proof_hashes[ctr + 1] ELSE cur_hash
           h2 == IF is_left THEN cur_hash ELSE proof_hashes[ctr + 1]
           next_hash == sha256(sha256(h1 \o h2))
           is_verified == (1 + ctr = Len(proof_hashes)) /\ (next_hash = root_hash)
       IN [state EXCEPT !.cur_hash = next_hash, !.verified = is_verified]

\* fold f over the list <<from, ..., to - 1>> of counters
RECURSIVE FoldCtr(_, _, _)
FoldCtr(from, to, state) ==
  IF from >= to THEN state
  ELSE FoldCtr(from + 1, to, inner_merkle_proof_verify(from, state))

\* the state the fold of verify-merkle-proof ends in; None stands for the
\* runtime error of the path addition
merkle_fold(reversed_txid, merkle_root, proof) ==
  LET proof_hashes == proof.hashes
      proof_length == Len(proof_hashes)
      ctrs == Slice([i \in 1..MaxProofHashes |-> i - 1], 0, proof_length)
      path == UintAdd(Pow2(proof_length), proof.tx_index)
  IN IF ctrs = None \/ path = None THEN None
     ELSE Some(FoldCtr(0, Len(ctrs[1]),
                 [path |-> path[1], root_hash |-> merkle_root,
                  proof_hashes |-> proof_hashes, cur_hash |-> reversed_txid,
                  verified |-> FALSE]))

\* variant: a leaf that is the root itself is accepted whatever the siblings
verify_merkle_proof_leaf_is_root(reversed_txid, merkle_root, proof) ==
  LET f == merkle_fold(reversed_txid, merkle_root, proof)
  IN IF f = None THEN RuntimeError
     ELSE Bool(reversed_txid = merkle_root \/ f[1].verified)

verify_merkle_proof(reversed_txid, merkle_root, proof) ==
  LET f == merkle_fold(reversed_txid, merkle_root, proof)
  IN IF f = None THEN RuntimeError ELSE Bool(f[1].verified)

\* variant: the Merkle proof is checked before the header
was_txid_mined_proof_first(store, height, txid, header, proof) ==
  LET s == Slice(header, block_header_merkle_root_start, block_header_merkle_root_end)
  IN IF s = None THEN ERR_INVALID_BLOCK_HEADER_LENGTH
     ELSE IF AsMaxLen(s[1], 32) = None THEN RuntimeError
     ELSE LET r == reverse_buff32(txid)
          IN IF r = None THEN RuntimeError
             ELSE LET v == verify_merkle_proof(r[1], s[1], proof)
                  IN IF v.k = "abort" THEN RuntimeError
                     ELSE IF v.v # 1 THEN ERR_INVALID_MERKLE_PROOF
                     ELSE IF ~verify_block_header(store, header, height)
                          THEN ERR_HEADER_HEIGHT_MISMATCH
                     ELSE OkTrue

was_txid_mined(store, height, txid, header, proof) ==
  LET s == Slice(header, block_header_merkle_root_start, block_header_merkle_root_end)
  IN IF s = None THEN ERR_INVALID_BLOCK_HEADER_LENGTH
     ELSE IF AsMaxLen(s[1], 32) = None THEN RuntimeError
     ELSE IF ~verify_block_header(store, header, height) THEN ERR_HEADER_HEIGHT_MISMATCH
     ELSE LET r == reverse_buff32(txid)
          IN IF r = None THEN RuntimeError
             ELSE LET v == verify_merkle_proof(r[1], s[1], proof)
                  IN IF v.k = "abort" THEN RuntimeError
                     ELSE IF v.v = 1 THEN OkTrue
                     ELSE ERR_INVALID_MERKLE_PROOF

(***************************************************************************)
(* The calls: one action per function of the contract.  `call` records the *)
(* last call and its arguments, `ret` what it returned.                    *)
(***************************************************************************)
NoCall == [op |-> "none", height |-> 0, txid |-> <<>>, header |-> <<>>,
           root |-> <<>>, tx_index |-> 0, hashes |-> <<>>, input |-> <<>>,
           amount |-> 0, principal |-> "", tx_sender |-> "", contract_caller |-> "",
           recipient |-> "", request_id |-> 0, recipients |-> <<>>,
           until_burn_ht |-> <<>>]

\* (map-set debug-burn-header-hashes burn-height header-hash)
MapSet(store, key, value) ==
  [h \in DOMAIN store \cup {key} |-> IF h = key THEN value ELSE store[h]]

\* variant: the hash is recorded whatever DEBUG-MODE is
debug_insert_burn_header_hash_always(header_hash, burn_height) ==
  /\ debug_burn_header_hashes' = MapSet(debug_burn_header_hashes, burn_height, header_hash)
  /\ call' = [NoCall EXCEPT !.op = "debug-insert-burn-header-hash",
                            !.height = burn_height, !.txid = header_hash]
  /\ ret' = IF debug_mode THEN OkTrue ELSE OkFalse
  /\ UNCHANGED <<assetVars, outerVars>>

debug_insert_burn_header_hash(header_hash, burn_height) ==
  /\ debug_burn_header_hashes' =
       IF debug_mode THEN MapSet(debug_burn_header_hashes, burn_height, header_hash)
       ELSE debug_burn_header_hashes
  /\ call' = [NoCall EXCEPT !.op = "debug-insert-burn-header-hash",
                            !.height = burn_height, !.txid = header_hash]
  /\ ret' = IF debug_mode THEN OkTrue ELSE OkFalse
  /\ UNCHANGED <<assetVars, outerVars>>

\* variant: the recorded hash is unwrapped before it is compared, so a height
\* with no recorded hash is a runtime error
call_verify_block_header_unwrap(header, expected_block_height) ==
  /\ call' = [NoCall EXCEPT !.op = "verify-block-header",
                            !.height = expected_block_height, !.header = header]
  /\ ret' = IF get_burn_block_header_hash(debug_burn_header_hashes, expected_block_height) = None
            THEN RuntimeError
            ELSE Bool(verify_block_header(debug_burn_header_hashes, header, expected_block_height))
  /\ UNCHANGED <<debug_burn_header_hashes, assetVars, outerVars>>

call_verify_block_header(header, expected_block_height) ==
  /\ call' = [NoCall EXCEPT !.op = "verify-block-header",
                            !.height = expected_block_height, !.header = header]
  /\ ret' = Bool(verify_block_header(debug_burn_header_hashes, header, expected_block_height))
  /\ UNCHANGED <<debug_burn_header_hashes, assetVars, outerVars>>

call_verify_merkle_proof(reversed_txid, merkle_root, proof) ==
  /\ call' = [NoCall EXCEPT !.op = "verify-merkle-proof", !.txid = reversed_txid,
                            !.root = merkle_root, !.tx_index = proof.tx_index,
                            !.hashes = proof.hashes]
  /\ ret' = verify_merkle_proof(reversed_txid, merkle_root, proof)
  /\ UNCHANGED <<debug_burn_header_hashes, assetVars, outerVars>>

\* variant: a call at a height with no recorded hash records the hash of the
\* header it was given
call_was_txid_mined_recording(height, txid, header, proof) ==
  /\ call' = [NoCall EXCEPT !.op = "was-txid-mined", !.height = height,
                            !.txid = txid, !.header = header,
                            !.tx_index = proof.tx_index, !.hashes = proof.hashes]
  /\ ret' = was_txid_mined(debug_burn_header_hashes, height, txid, header, proof)
  /\ debug_burn_header_hashes' =
       IF get_burn_block_header_hash(debug_burn_header_hashes, height) = None
       THEN MapSet(debug_burn_header_hashes, height, reverse_buff32(sha256(sha256(header)))[1])
       ELSE debug_burn_header_hashes
  /\ UNCHANGED <<assetVars, outerVars>>

call_was_txid_mined(height, txid, header, proof) ==
  /\ call' = [NoCall EXCEPT !.op = "was-txid-mined", !.height = height,
                            !.txid = txid, !.header = header,
                            !.tx_index = proof.tx_index, !.hashes = proof.hashes]
  /\ ret' = was_txid_mined(debug_burn_header_hashes, height, txid, header, proof)
  /\ UNCHANGED <<debug_burn_header_hashes, assetVars, outerVars>>

call_reverse_buff16(input) ==
  /\ call' = [NoCall EXCEPT !.op = "reverse-buff16", !.input = input]
  /\ ret' = Buff(reverse_buff16(input))
  /\ UNCHANGED <<debug_burn_header_hashes, assetVars, outerVars>>

call_reverse_buff32(input) ==
  /\ call' = [NoCall EXCEPT !.op = "reverse-buff32", !.input = input]
  /\ ret' = LET r == reverse_buff32(input) IN IF r = None THEN RuntimeError ELSE Buff(r[1])
  /\ UNCHANGED <<debug_burn_header_hashes, assetVars, outerVars>>

(***************************************************************************)
(* The asset contract: the sbtc token, its owner and the Bitcoin           *)
(* transactions it has minted or burned for.  A public function that       *)
(* returns an err value or aborts leaves the state as it was.              *)
(***************************************************************************)
err_invalid_caller == Err(4)
err_forbidden == Err(403)
err_not_found == Err(404)
err_btc_tx_already_used == Err(500)
err_request_id_already_used == Err(501)
\* (define-fungible-token sbtc u2100000000000000): supply + amount is above
\* the cap.  The supply and the small amounts stay far below the cap, so only
\* an amount near 2^128 (a negative integer) goes above it.
ExceedsMaxSupply(supply, amount) == amount < 0

\* to-int : None stands for the runtime error for a uint of 2^127 or more
to_int(u) == IF u < 0 THEN None ELSE Some(u)

\* ft-mint? : err u1 for amount 0, a runtime error beyond the supply cap
ft_mint(supply, amount) ==
  IF amount = 0 THEN Err(1)
  ELSE IF ExceedsMaxSupply(supply, amount) THEN RuntimeError
  ELSE OkTrue

\* ft-burn? : err u1 for amount 0 and for more than the balance
ft_burn(balance, amount) ==
  IF amount = 0 \/ amount < 0 \/ balance < amount THEN Err(1) ELSE OkTrue

\* ft-transfer? : err u3 for amount 0, err u2 for a transfer to oneself,
\* err u1 for more than the balance
ft_transfer(balance, amount, sender, recipient) ==
  IF amount = 0 THEN Err(3)
  ELSE IF sender = recipient THEN Err(2)
  ELSE IF amount < 0 \/ balance < amount THEN Err(1)
  ELSE OkTrue

\* (map-delete map key)
MapDelete(map, key) == [k \in DOMAIN map \ {key} |-> map[k]]

\* burn-block-height
burn_block_height == Len(burn_header_hashes)

\* variant: the owner is compared with tx-sender
is_contract_owner_tx_sender(tx_sender, contract_caller) ==
  IF contract_owner = tx_sender THEN OkTrue ELSE err_forbidden

is_contract_owner(tx_sender, contract_caller) ==
  IF contract_owner = contract_caller THEN OkTrue ELSE err_forbidden

verify_txid_exists_on_burn_chain(txid, burn_chain_height, merkle_proof, tx_index, block_header) ==
  was_txid_mined(debug_burn_header_hashes, burn_chain_height, txid, block_header,
                 [tx_index |-> tx_index, hashes |-> merkle_proof])

\* variant: the deposit transaction is not looked up on the burn chain
mint_result_unverified(amount, destination, deposit_txid, burn_chain_height, merkle_proof, tx_index, block_header, tx_sender, contract_caller) ==
  LET o == is_contract_owner(tx_sender, contract_caller)
  IN IF o.k = "err" THEN o
     ELSE IF to_int(amount) = None THEN RuntimeError
     ELSE IF deposit_txid \in DOMAIN amounts_by_btc_tx THEN err_btc_tx_already_used
     ELSE ft_mint(sbtc_supply, amount)

\* what mint returns: the first check that fails, else (ok true)
mint_result(amount, destination, deposit_txid, burn_chain_height, merkle_proof, tx_index, block_header, tx_sender, contract_caller) ==
  LET o == is_contract_owner(tx_sender, contract_caller)
      v == verify_txid_exists_on_burn_chain(deposit_txid, burn_chain_height,
                                            merkle_proof, tx_index, block_header)
  IN IF o.k = "err" THEN o
     ELSE IF v.k \in {"err", "abort"} THEN v
     ELSE IF to_int(amount) = None THEN RuntimeError
     ELSE IF deposit_txid \in DOMAIN amounts_by_btc_tx THEN err_btc_tx_already_used
     ELSE ft_mint(sbtc_supply, amount)

\* variant: the txid stays recorded when ft-mint? fails
mint_keeping_record(amount, destination, deposit_txid, burn_chain_height, merkle_proof, tx_index, block_header, tx_sender, contract_caller) ==
  LET r == mint_result(amount, destination, deposit_txid, burn_chain_height,
                       merkle_proof, tx_index, block_header, tx_sender, contract_caller)
  IN /\ call' = [NoCall EXCEPT !.op = "mint", !.amount = amount, !.principal = destination,
                               !.txid = deposit_txid, !.height = burn_chain_height,
                               !.hashes = merkle_proof, !.tx_index = tx_index,
                               !.header = block_header, !.tx_sender = tx_sender,
                               !.contract_caller = contract_caller]
     /\ ret' = r
     /\ IF r = OkTrue
        THEN /\ amounts_by_btc_tx' = MapSet(amounts_by_btc_tx, deposit_txid, to_int(amount)[1])
             /\ sbtc_balances' = [sbtc_balances EXCEPT ![destination] = @ + amount]
             /\ sbtc_supply' = sbtc_supply + amount
        ELSE IF r = Err(1)
        THEN /\ amounts_by_btc_tx' = MapSet(amounts_by_btc_tx, deposit_txid, to_int(amount)[1])
             /\ UNCHANGED <<sbtc_balances, sbtc_supply>>
        ELSE UNCHANGED <<amounts_by_btc_tx, sbtc_balances, sbtc_supply>>
     /\ UNCHANGED <<debug_burn_header_hashes, contract_owner, bitcoin_wallet_public_key,
                    requestVars, outerVars>>

mint(amount, destination, deposit_txid, burn_chain_height, merkle_proof, tx_index, block_header, tx_sender, contract_caller) ==
  LET r == mint_result(amount, destination, deposit_txid, burn_chain_height,
                       merkle_proof, tx_index, block_header, tx_sender, contract_caller)
  IN /\ call' = [NoCall EXCEPT !.op = "mint", !.amount = amount, !.principal = destination,
                               !.txid = deposit_txid, !.height = burn_chain_height,
                               !.hashes = merkle_proof, !.tx_index = tx_index,
                               !.header = block_header, !.tx_sender = tx_sender,
                               !.contract_caller = contract_caller]
     /\ ret' = r
     /\ IF r = OkTrue
        THEN /\ amounts_by_btc_tx' = MapSet(amounts_by_btc_tx, deposit_txid, to_int(amount)[1])
             /\ sbtc_balances' = [sbtc_balances EXCEPT ![destination] = @ + amount]
             /\ sbtc_supply' = sbtc_supply + amount
        ELSE UNCHANGED <<amounts_by_btc_tx, sbtc_balances, sbtc_supply>>
     /\ UNCHANGED <<debug_burn_header_hashes, contract_owner, bitcoin_wallet_public_key,
                    requestVars, outerVars>>

\* variant: the amount is written with map-set, without the check that the
\* transaction was used before
burn_result_map_set(amount, owner, withdraw_txid, burn_chain_height, merkle_proof, tx_index, block_header, tx_sender, contract_caller) ==
  LET o == is_contract_owner(tx_sender, contract_caller)
      v == verify_txid_exists_on_burn_chain(withdraw_txid, burn_chain_height,
                                            merkle_proof, tx_index, block_header)
  IN IF o.k = "err" THEN o
     ELSE IF v.k \in {"err", "abort"} THEN v
     ELSE IF to_int(amount) = None THEN RuntimeError
     ELSE ft_burn(sbtc_balances[owner], amount)

\* what burn returns: the first check that fails, else (ok true)
burn_result(amount, owner, withdraw_txid, burn_chain_height, merkle_proof, tx_index, block_header, tx_sender, contract_caller) ==
  LET o == is_contract_owner(tx_sender, contract_caller)
      v == verify_txid_exists_on_burn_chain(withdraw_txid, burn_chain_height,
                                            merkle_proof, tx_index, block_header)
  IN IF o.k = "err" THEN o
     ELSE IF v.k \in {"err", "abort"} THEN v
     ELSE IF to_int(amount) = None THEN RuntimeError
     ELSE IF withdraw_txid \in DOMAIN amounts_by_btc_tx THEN err_btc_tx_already_used
     ELSE ft_burn(sbtc_balances[owner], amount)

\* variant: the burnt amount is recorded without the sign
burn_recording_positive(amount, owner, withdraw_txid, burn_chain_height, merkle_proof, tx_index, block_header, tx_sender, contract_caller) ==
  LET r == burn_result(amount, owner, withdraw_txid, burn_chain_height,
                       merkle_proof, tx_index, block_header, tx_sender, contract_caller)
  IN /\ call' = [NoCall EXCEPT !.op = "burn", !.amount = amount, !.principal = owner,
                               !.txid = withdraw_txid, !.height = burn_chain_height,
                               !.hashes = merkle_proof, !.tx_index = tx_index,
                               !.header = block_header, !.tx_sender = tx_sender,
                               !.contract_caller = contract_caller]
     /\ ret' = r
     /\ IF r = OkTrue
        THEN /\ amounts_by_btc_tx' = MapSet(amounts_by_btc_tx, withdraw_txid, to_int(amount)[1])
             /\ sbtc_balances' = [sbtc_balances EXCEPT ![owner] = @ - amount]
             /\ sbtc_supply' = sbtc_supply - amount
        ELSE UNCHANGED <<amounts_by_btc_tx, sbtc_balances, sbtc_supply>>
     /\ UNCHANGED <<debug_burn_header_hashes, contract_owner, bitcoin_wallet_public_key,
                    requestVars, outerVars>>

burn(amount, owner, withdraw_txid, burn_chain_height, merkle_proof, tx_index, block_header, tx_sender, contract_caller) ==
  LET r == burn_result(amount, owner, withdraw_txid, burn_chain_height,
                       merkle_proof, tx_index, block_header, tx_sender, contract_caller)
  IN /\ call' = [NoCall EXCEPT !.op = "burn", !.amount = amount, !.principal = owner,
                               !.txid = withdraw_txid, !.height = burn_chain_height,
                               !.hashes = merkle_proof, !.tx_index = tx_index,
                               !.header = block_header, !.tx_sender = tx_sender,
                               !.contract_caller = contract_caller]
     /\ ret' = r
     /\ IF r = OkTrue
        THEN /\ amounts_by_btc_tx' = MapSet(amounts_by_btc_tx, withdraw_txid, (-1) * to_int(amount)[1])
             /\ sbtc_balances' = [sbtc_balances EXCEPT ![owner] = @ - amount]
             /\ sbtc_supply' = sbtc_supply - amount
        ELSE UNCHANGED <<amounts_by_btc_tx, sbtc_balances, sbtc_supply>>
     /\ UNCHANGED <<debug_burn_header_hashes, contract_owner, bitcoin_wallet_public_key,
                    requestVars, outerVars>>

\* read-only: the owner
get_contract_owner == contract_owner

\* variant: the caller that hands over stays the owner
set_contract_owner_kept(new_owner, tx_sender, contract_caller) ==
  LET o == is_contract_owner(tx_sender, contract_caller)
  IN /\ call' = [NoCall EXCEPT !.op = "set-contract-owner", !.principal = new_owner,
                               !.tx_sender = tx_sender, !.contract_caller = contract_caller]
     /\ ret' = o
     /\ contract_owner' = IF o = OkTrue THEN contract_caller ELSE contract_owner
     /\ UNCHANGED <<debug_burn_header_hashes, bitcoin_wallet_public_key,
                    amounts_by_btc_tx, sbtc_balances, sbtc_supply,
                    requestVars, outerVars>>

set_contract_owner(new_owner, tx_sender, contract_caller) ==
  LET o == is_contract_owner(tx_sender, contract_caller)
  IN /\ call' = [NoCall EXCEPT !.op = "set-contract-owner", !.principal = new_owner,
                               !.tx_sender = tx_sender, !.contract_caller = contract_caller]
     /\ ret' = o
     /\ contract_owner' = IF o = OkTrue THEN new_owner ELSE contract_owner
     /\ UNCHANGED <<debug_burn_header_hashes, bitcoin_wallet_public_key,
                    amounts_by_btc_tx, sbtc_balances, sbtc_supply,
                    requestVars, outerVars>>

set_bitcoin_wallet_public_key(public_key, tx_sender, contract_caller) ==
  LET o == is_contract_owner(tx_sender, contract_caller)
  IN /\ call' = [NoCall EXCEPT !.op = "set-bitcoin-wallet-public-key", !.input = public_key,
                               !.tx_sender = tx_sender, !.contract_caller = contract_caller]
     /\ ret' = o
     /\ bitcoin_wallet_public_key' =
          IF o = OkTrue THEN Some(public_key) ELSE bitcoin_wallet_public_key
     /\ UNCHANGED <<debug_burn_header_hashes, contract_owner,
                    amounts_by_btc_tx, sbtc_balances, sbtc_supply,
                    requestVars, outerVars>>

\* variant: the sender is not compared with the caller
transfer_result_unchecked(amount, sender, recipient, memo, tx_sender, contract_caller) ==
  ft_transfer(sbtc_balances[sender], amount, sender, recipient)

\* what transfer returns
transfer_result(amount, sender, recipient, memo, tx_sender, contract_caller) ==
  IF ~(tx_sender = sender \/ contract_caller = sender) THEN err_invalid_caller
  ELSE ft_transfer(sbtc_balances[sender], amount, sender, recipient)

\* read-only: the balance of a principal, the supply, the recorded amount
get_balance(who) == OkUint(sbtc_balances[who])
get_total_supply == OkUint(sbtc_supply)
get_amount_by_btc_txid(txid) ==
  IF txid \in DOMAIN amounts_by_btc_tx THEN Some(amounts_by_btc_tx[txid]) ELSE None

\* variant: the recipient is credited and the sender keeps the tokens
transfer_credit_only(amount, sender, recipient, memo, tx_sender, contract_caller) ==
  LET r == transfer_result(amount, sender, recipient, memo, tx_sender, contract_caller)
  IN /\ call' = [NoCall EXCEPT !.op = "transfer", !.amount = amount, !.principal = sender,
                               !.recipient = recipient, !.tx_sender = tx_sender,
                               !.contract_caller = contract_caller]
     /\ ret' = r
     /\ sbtc_balances' =
          IF r = OkTrue
          THEN [sbtc_balances EXCEPT ![recipient] = @ + amount]
          ELSE sbtc_balances
     /\ UNCHANGED <<debug_burn_header_hashes, contract_owner, bitcoin_wallet_public_key,
                    amounts_by_btc_tx, sbtc_supply, requestVars, outerVars>>

transfer(amount, sender, recipient, memo, tx_sender, contract_caller) ==
  LET r == transfer_result(amount, sender, recipient, memo, tx_sender, contract_caller)
  IN /\ call' = [NoCall EXCEPT !.op = "transfer", !.amount = amount, !.principal = sender,
                               !.recipient = recipient, !.tx_sender = tx_sender,
                               !.contract_caller = contract_caller]
     /\ ret' = r
     /\ sbtc_balances' =
          IF r = OkTrue
          THEN [sbtc_balances EXCEPT ![sender] = @ - amount, ![recipient] = @ + amount]
          ELSE sbtc_balances
     /\ UNCHANGED <<debug_burn_header_hashes, contract_owner, bitcoin_wallet_public_key,
                    amounts_by_btc_tx, sbtc_supply, requestVars, outerVars>>

disallow_contract_caller(caller, tx_sender, contract_caller) ==
  LET key == [sender |-> tx_sender, contract_caller |-> caller]
      direct == tx_sender = contract_caller
  IN /\ call' = [NoCall EXCEPT !.op = "disallow-contract-caller", !.principal = caller,
                               !.tx_sender = tx_sender, !.contract_caller = contract_caller]
     /\ ret' = IF ~direct THEN err_invalid_caller
               ELSE IF key \in DOMAIN allowance_contract_callers THEN OkTrue ELSE OkFalse
     /\ allowance_contract_callers' =
          IF direct THEN MapDelete(allowance_contract_callers, key)
          ELSE allowance_contract_callers
     /\ UNCHANGED <<debug_burn_header_hashes, contract_owner, bitcoin_wallet_public_key,
                    amounts_by_btc_tx, sbtc_balances, sbtc_supply, last_request_id,
                    amounts_by_request_id, requests, outerVars>>

allow_contract_caller(caller, until_burn_ht, tx_sender, contract_caller) ==
  LET key == [sender |-> tx_sender, contract_caller |-> caller]
      direct == tx_sender = contract_caller
  IN /\ call' = [NoCall EXCEPT !.op = "allow-contract-caller", !.principal = caller,
                               !.until_burn_ht = until_burn_ht,
                               !.tx_sender = tx_sender, !.contract_caller = contract_caller]
     /\ ret' = IF direct THEN OkTrue ELSE err_invalid_caller
     /\ allowance_contract_callers' =
          IF direct
          THEN MapSet(allowance_contract_callers, key, [until_burn_ht |-> until_burn_ht])
          ELSE allowance_contract_callers
     /\ UNCHANGED <<debug_burn_header_hashes, contract_owner, bitcoin_wallet_public_key,
                    amounts_by_btc_tx, sbtc_balances, sbtc_supply, last_request_id,
                    amounts_by_request_id, requests, outerVars>>

\* variant: the allowance still holds at the height it expires at
check_caller_allowed_at_expiry(tx_sender, contract_caller) ==
  \/ tx_sender = contract_caller
  \/ LET key == [sender |-> tx_sender, contract_caller |-> contract_caller]
     IN IF key \notin DOMAIN allowance_contract_callers THEN FALSE
        ELSE LET expires_at == allowance_contract_callers[key].until_burn_ht
             IN IF expires_at = None THEN TRUE
                ELSE ~(burn_block_height > expires_at[1])

check_caller_allowed(tx_sender, contract_caller) ==
  \/ tx_sender = contract_caller
  \/ LET key == [sender |-> tx_sender, contract_caller |-> contract_caller]
     IN IF key \notin DOMAIN allowance_contract_callers THEN FALSE
        ELSE LET expires_at == allowance_contract_callers[key].until_burn_ht
             IN IF expires_at = None THEN TRUE
                ELSE ~(burn_block_height >= expires_at[1])

\* variant: the requested amount is taken from the requester's balance when
\* the request is stored
request_withdrawal_escrowing(amount, recipient, tx_sender, contract_caller) ==
  LET request_id == UintAdd(1, last_request_id)[1]
      allowed == tx_sender = contract_caller \/ check_caller_allowed(tx_sender, contract_caller)
  IN /\ call' = [NoCall EXCEPT !.op = "request-withdrawal", !.amount = amount,
                               !.tx_sender = tx_sender, !.contract_caller = contract_caller]
     /\ ret' = IF allowed THEN OkUint(request_id) ELSE err_invalid_caller
     /\ requests' =
          IF allowed
          THEN MapSet(requests, request_id,
                      [amount |-> amount, owner |-> tx_sender, recipient |-> recipient])
          ELSE requests
     /\ last_request_id' = IF allowed THEN request_id ELSE last_request_id
     /\ sbtc_balances' =
          IF allowed /\ amount >= 0 /\ sbtc_balances[tx_sender] >= amount
          THEN [sbtc_balances EXCEPT ![tx_sender] = @ - amount]
          ELSE sbtc_balances
     /\ UNCHANGED <<debug_burn_header_hashes, contract_owner, bitcoin_wallet_public_key,
                    amounts_by_btc_tx, sbtc_supply,
                    amounts_by_request_id, allowance_contract_callers, outerVars>>

request_withdrawal(amount, recipient, tx_sender, contract_caller) ==
  LET request_id == UintAdd(1, last_request_id)[1]
      allowed == tx_sender = contract_caller \/ check_caller_allowed(tx_sender, contract_caller)
  IN /\ call' = [NoCall EXCEPT !.op = "request-withdrawal", !.amount = amount,
                               !.tx_sender = tx_sender, !.contract_caller = contract_caller]
     /\ ret' = IF allowed THEN OkUint(request_id) ELSE err_invalid_caller
     /\ requests' =
          IF allowed
          THEN MapSet(requests, request_id,
                      [amount |-> amount, owner |-> tx_sender, recipient |-> recipient])
          ELSE requests
     /\ last_request_id' = IF allowed THEN request_id ELSE last_request_id
     /\ UNCHANGED <<debug_burn_header_hashes, contract_owner, bitcoin_wallet_public_key,
                    amounts_by_btc_tx, sbtc_balances, sbtc_supply,
                    amounts_by_request_id, allowance_contract_callers, outerVars>>

\* variant: cancelling the last request gives its id back
cancle_request_releasing_id(request_id, tx_sender, contract_caller) ==
  LET r == IF request_id \notin DOMAIN requests THEN err_not_found
           ELSE IF ~(tx_sender = contract_caller
                       \/ check_caller_allowed(tx_sender, contract_caller))
           THEN err_invalid_caller
           ELSE OkUint(request_id)
  IN /\ call' = [NoCall EXCEPT !.op = "cancle-request", !.request_id = request_id,
                               !.tx_sender = tx_sender, !.contract_caller = contract_caller]
     /\ ret' = r
     /\ requests' = IF r.k = "ok-uint" THEN MapDelete(requests, request_id) ELSE requests
     /\ last_request_id' =
          IF r.k = "ok-uint" /\ request_id = last_request_id
          THEN last_request_id - 1 ELSE last_request_id
     /\ UNCHANGED <<debug_burn_header_hashes, contract_owner, bitcoin_wallet_public_key,
                    amounts_by_btc_tx, sbtc_balances, sbtc_supply,
                    amounts_by_request_id, allowance_contract_callers, outerVars>>

cancle_request(request_id, tx_sender, contract_caller) ==
  LET r == IF request_id \notin DOMAIN requests THEN err_not_found
           ELSE IF ~(tx_sender = contract_caller
                       \/ check_caller_allowed(tx_sender, contract_caller))
           THEN err_invalid_caller
           ELSE OkUint(request_id)
  IN /\ call' = [NoCall EXCEPT !.op = "cancle-request", !.request_id = request_id,
                               !.tx_sender = tx_sender, !.contract_caller = contract_caller]
     /\ ret' = r
     /\ requests' = IF r.k = "ok-uint" THEN MapDelete(requests, request_id) ELSE requests
     /\ UNCHANGED <<debug_burn_header_hashes, contract_owner, bitcoin_wallet_public_key,
                    amounts_by_btc_tx, sbtc_balances, sbtc_supply, last_request_id,
                    amounts_by_request_id, allowance_contract_callers, outerVars>>

\* variant: the amount is written with map-set, without the check that the
\* request was used before
burn_by_request_id_result_map_set(request_id, tx_sender, contract_caller) ==
  IF request_id \notin DOMAIN requests THEN err_not_found
  ELSE LET details == requests[request_id]
           o == is_contract_owner(tx_sender, contract_caller)
       IN IF o.k = "err" THEN o
          ELSE IF to_int(details.amount) = None THEN RuntimeError
          ELSE ft_burn(sbtc_balances[details.owner], details.amount)

\* what burn-by-request-id returns: the first check that fails, else (ok true)
burn_by_request_id_result(request_id, tx_sender, contract_caller) ==
  IF request_id \notin DOMAIN requests THEN err_not_found
  ELSE LET details == requests[request_id]
           o == is_contract_owner(tx_sender, contract_caller)
       IN IF o.k = "err" THEN o
          ELSE IF to_int(details.amount) = None THEN RuntimeError
          ELSE IF request_id \in DOMAIN amounts_by_request_id
          THEN err_request_id_already_used
          ELSE ft_burn(sbtc_balances[details.owner], details.amount)

\* variant: the tokens leave the balance and stay in the supply
burn_by_request_id_supply_kept(request_id, tx_sender, contract_caller) ==
  LET r == burn_by_request_id_result(request_id, tx_sender, contract_caller)
  IN /\ call' = [NoCall EXCEPT !.op = "burn-by-request-id", !.request_id = request_id,
                               !.tx_sender = tx_sender, !.contract_caller = contract_caller]
     /\ ret' = r
     /\ IF r = OkTrue
        THEN LET details == requests[request_id]
             IN /\ amounts_by_request_id' =
                     MapSet(amounts_by_request_id, request_id,
                            (-1) * to_int(details.amount)[1])
                /\ sbtc_balances' =
                     [sbtc_balances EXCEPT ![details.owner] = @ - details.amount]
        ELSE UNCHANGED <<amounts_by_request_id, sbtc_balances>>
     /\ UNCHANGED <<debug_burn_header_hashes, contract_owner, bitcoin_wallet_public_key,
                    amounts_by_btc_tx, sbtc_supply, last_request_id, requests,
                    allowance_contract_callers, outerVars>>

burn_by_request_id(request_id, tx_sender, contract_caller) ==
  LET r == burn_by_request_id_result(request_id, tx_sender, contract_caller)
  IN /\ call' = [NoCall EXCEPT !.op = "burn-by-request-id", !.request_id = request_id,
                               !.tx_sender = tx_sender, !.contract_caller = contract_caller]
     /\ ret' = r
     /\ IF r = OkTrue
        THEN LET details == requests[request_id]
             IN /\ amounts_by_request_id' =
                     MapSet(amounts_by_request_id, request_id,
                            (-1) * to_int(details.amount)[1])
                /\ sbtc_balances' =
                     [sbtc_balances EXCEPT ![details.owner] = @ - details.amount]
                /\ sbtc_supply' = sbtc_supply - details.amount
        ELSE UNCHANGED <<amounts_by_request_id, sbtc_balances, sbtc_supply>>
     /\ UNCHANGED <<debug_burn_header_hashes, contract_owner, bitcoin_wallet_public_key,
                    amounts_by_btc_tx, last_request_id, requests,
                    allowance_contract_callers, outerVars>>

(***************************************************************************)
(* sbtc-send-many: a principal stores a list of recipients with amounts and *)
(* later has the contract pay them from the contract's own sBTC.           *)
(***************************************************************************)
send_many_err_not_found == Err(404)
err_invalid_amount == Err(500)
\* the principal of the sbtc-send-many contract
SendMany == "sbtc-send-many"

\* what the asset contract's transfer returns when it is called on the
\* balances, and the balances it leaves
asset_transfer(balances, amount, sender, recipient, memo, tx_sender, contract_caller) ==
  LET r == IF ~(tx_sender = sender \/ contract_caller = sender) THEN err_invalid_caller
           ELSE ft_transfer(balances[sender], amount, sender, recipient)
  IN [result |-> r,
      balances |-> IF r = OkTrue
                   THEN [balances EXCEPT ![sender] = @ - amount, ![recipient] = @ + amount]
                   ELSE balances]

\* (as-contract (contract-call? .asset transfer sats tx-sender to (some memo)))
transfer_sbtc_with_memo(balances, sats, to, memo) ==
  asset_transfer(balances, sats, SendMany, to, Some(memo), SendMany, SendMany)

send_sbtc(balances, recipient) ==
  transfer_sbtc_with_memo(balances, recipient.sbtc_in_sats, recipient.to, recipient.memo)

\* (fold sum recipients u0); none when the sum overflows
RECURSIVE fold_sum(_, _)
fold_sum(recipients, total) ==
  IF recipients = <<>> THEN Some(total)
  ELSE LET t == UintAdd(total, Head(recipients).sbtc_in_sats)
       IN IF t = None THEN None ELSE fold_sum(Tail(recipients), t[1])

\* (map send-sbtc recipients): every transfer is made, in order; one that
\* returns an error changes nothing
RECURSIVE map_send_sbtc(_, _)
map_send_sbtc(balances, recipients) ==
  IF recipients = <<>> THEN [results |-> <<>>, balances |-> balances]
  ELSE LET t == send_sbtc(balances, Head(recipients))
           rest == map_send_sbtc(t.balances, Tail(recipients))
       IN [results |-> <<t.result>> \o rest.results, balances |-> rest.balances]

check_err(result, prior) == IF prior.k = "ok" THEN result ELSE prior

\* (fold check-err results (ok true)): the first error, else (ok true)
RECURSIVE fold_check_err(_, _)
fold_check_err(results, prior) ==
  IF results = <<>> THEN prior
  ELSE fold_check_err(Tail(results), check_err(Head(results), prior))

request_send_sbtc_many(recipients, tx_sender) ==
  LET request_id == UintAdd(1, send_many_last_request_id)[1]
      total == fold_sum(recipients, 0)
      r == IF total = None THEN RuntimeError
           ELSE IF ~(total[1] > 0) THEN err_invalid_amount
           ELSE [k |-> "ok-request", v |-> [request_id |-> request_id, total |-> total[1]]]
  IN /\ call' = [NoCall EXCEPT !.op = "request-send-sbtc-many", !.recipients = recipients,
                               !.tx_sender = tx_sender, !.contract_caller = tx_sender]
     /\ ret' = r
     /\ IF r.k = "ok-request"
        THEN /\ send_many_last_request_id' = request_id
             /\ send_many_requests' =
                  MapSet(send_many_requests,
                         [owner |-> tx_sender, request_id |-> request_id], recipients)
        ELSE UNCHANGED <<send_many_last_request_id, send_many_requests>>
     /\ UNCHANGED <<debug_burn_header_hashes, assetVars, debug_mode, burn_header_hashes>>

fulfill_send_request(request_id, tx_sender) ==
  LET request_key == [owner |-> tx_sender, request_id |-> request_id]
  IN /\ call' = [NoCall EXCEPT !.op = "fulfill-send-request", !.request_id = request_id,
                               !.tx_sender = tx_sender, !.contract_caller = tx_sender]
     /\ IF request_key \notin DOMAIN send_many_requests
        THEN /\ ret' = send_many_err_not_found
             /\ UNCHANGED <<sbtc_balances, send_many_requests>>
        ELSE LET sent == map_send_sbtc(sbtc_balances, send_many_requests[request_key])
                 result == fold_check_err(sent.results, OkTrue)
             IN /\ ret' = result
                /\ IF result = OkTrue
                   THEN /\ sbtc_balances' = sent.balances
                        /\ send_many_requests' = MapDelete(send_many_requests, request_key)
                   ELSE UNCHANGED <<sbtc_balances, send_many_requests>>
     /\ UNCHANGED <<debug_burn_header_hashes, contract_owner, bitcoin_wallet_public_key,
                    amounts_by_btc_tx, sbtc_supply, requestVars,
                    debug_mode, burn_header_hashes, send_many_last_request_id>>

(***************************************************************************)
(* The inputs the calls are explored with.                                 *)
(***************************************************************************)
\* n literal bytes seed+1, seed+2, ...
LitBuf(seed, n) == [i \in 1..n |-> Lit((seed + i) % 256)]

\* double SHA-256
hash256(x) == sha256(sha256(x))

\* the j-th transaction id, in the byte order the Merkle tree is built from
Leaf(j) == LitBuf(32 * j, HashLen)

\* Bitcoin's Merkle tree: a level is hashed pairwise into the next, a node
\* without a right neighbour is paired with itself
NextLevel(nodes) ==
  [i \in 1..((Len(nodes) + 1) \div 2) |->
     hash256(nodes[2 * i - 1] \o (IF 2 * i <= Len(nodes) THEN nodes[2 * i] ELSE nodes[2 * i - 1]))]

RECURSIVE MerkleRoot(_)
MerkleRoot(nodes) == IF Len(nodes) = 1 THEN nodes[1] ELSE MerkleRoot(NextLevel(nodes))

\* the siblings of the node at 0-based position idx, bottom to top
RECURSIVE MerklePath(_, _)
MerklePath(nodes, idx) ==
  IF Len(nodes) = 1 THEN <<>>
  ELSE LET sib == IF idx % 2 = 1 THEN idx - 1 ELSE IF idx + 1 < Len(nodes) THEN idx + 1 ELSE idx
       IN <<nodes[sib + 1]>> \o MerklePath(NextLevel(nodes), idx \div 2)

RECURSIVE MerkleDepth(_)
MerkleDepth(nodes) == IF Len(nodes) = 1 THEN 0 ELSE 1 + MerkleDepth(NextLevel(nodes))

Tree(n) == [j \in 1..n |-> Leaf(j)]
TreeSizes == 1..MaxLeaves

RECURSIVE SeqsUpTo(_, _)
SeqsUpTo(S, n) ==
  IF n = 0 THEN {<<>>}
  ELSE LET shorter == SeqsUpTo(S, n - 1)
       IN shorter \cup {Append(q, x) : q \in {r \in shorter : Len(r) = n - 1}, x \in S}

\* unwrapped byte reversal of a 32-byte buffer
Rev(x) == reverse_buff32(x)[1]

Heights == 0..MaxHeight
ShortBuf == LitBuf(0, HashLen - 1)
BigTree == Tree(MaxLeaves)
LastLeaf == Leaf(MaxLeaves)
\* every node of the tree below its root
RECURSIVE NonRootNodes(_)
NonRootNodes(nodes) ==
  IF Len(nodes) = 1 THEN {}
  ELSE {nodes[j] : j \in 1..Len(nodes)} \cup NonRootNodes(NextLevel(nodes))

SiblingPool == NonRootNodes(BigTree)
\* u0 .. uMaxLeaves, u340282366920938463463374607431768211451 (2^128 - 5)
\* and u340282366920938463463374607431768211455 (2^128 - 1)
TxIndexes == 0..MaxLeaves \cup {-5, -1}
Proofs == [tx_index : TxIndexes, hashes : SeqsUpTo(SiblingPool, MerkleDepth(BigTree))]
\* the proofs made of the siblings of the last leaf
LastPath == MerklePath(BigTree, MaxLeaves - 1)
LastProofs == [tx_index : {0, MaxLeaves - 1, -1},
               hashes : SeqsUpTo({LastPath[j] : j \in 1..Len(LastPath)}, Len(LastPath))]
LeafArgs == {Leaf(j) : j \in 1..MaxLeaves} \cup {ShortBuf}
RootArgs == {MerkleRoot(Tree(n)) : n \in TreeSizes}
TxidArgs == {Rev(LastLeaf), LastLeaf, ShortBuf}

\* a block header of len bytes (at most 80) whose bytes [36,68) are root
Header(root, len) ==
  SubSeq(LitBuf(100, block_header_merkle_root_start) \o root
           \o LitBuf(200, HeaderLen - block_header_merkle_root_end), 1, len)
BigHeader == Header(MerkleRoot(BigTree), HeaderLen)
HeaderArgs == {BigHeader, Header(MerkleRoot(Tree(2)), HeaderLen),
               Header(MerkleRoot(BigTree), 70), Header(MerkleRoot(BigTree), 67)}
StoredHashes == {Rev(hash256(BigHeader)), Leaf(1)}

\* the deployer, a second account, and a contract that calls the asset
\* contract on behalf of the account that called it
Principals == {"deployer", "wallet_1", "proxy"}
Callers == {[tx_sender |-> "deployer", contract_caller |-> "deployer"],
            [tx_sender |-> "wallet_1", contract_caller |-> "wallet_1"],
            [tx_sender |-> "deployer", contract_caller |-> "proxy"]}
Holders == {"deployer", "wallet_1"}
\* every principal that can hold tokens
Accounts == Principals \cup {"wallet_2", "sbtc-send-many"}
\* u0 .. uMaxAmount and u340282366920938463463374607431768211455
Amounts == 0..MaxAmount \cup {-1}
WalletKeys == {LitBuf(0, 33)}

\* the Bitcoin transaction data mint and burn are called with: the first and
\* the last transaction of the block with their proofs, the first
\* transaction with an empty proof and with a 67-byte header, and a 31-byte
\* txid, all at the height the block is recorded at
MinedHeight == MaxHeight
TxData(txid, height, hashes, tx_index, header) ==
  [txid |-> txid, height |-> height, hashes |-> hashes, tx_index |-> tx_index,
   header |-> header]
MinedTx(i, height) ==
  TxData(Rev(BigTree[i + 1]), height, MerklePath(BigTree, i), i, BigHeader)
BitcoinTxData ==
  {MinedTx(0, MinedHeight), MinedTx(MaxLeaves - 1, MinedHeight),
   TxData(Rev(BigTree[1]), MinedHeight, <<>>, 0, BigHeader),
   TxData(Rev(BigTree[1]), MinedHeight, MerklePath(BigTree, 0), 0,
          Header(MerkleRoot(BigTree), 67)),
   TxData(ShortBuf, MinedHeight, MerklePath(BigTree, 0), 0, BigHeader)}

NoRet == [k |-> "none", v |-> 0]

Init ==
  /\ debug_burn_header_hashes = <<>>
  /\ call = NoCall
  /\ ret = NoRet
  /\ contract_owner = "deployer"
  /\ bitcoin_wallet_public_key = None
  /\ amounts_by_btc_tx = <<>>
  /\ sbtc_balances = [p \in Accounts |-> 0]
  /\ sbtc_supply = 0
  /\ last_request_id = 0
  /\ amounts_by_request_id = <<>>
  /\ requests = <<>>
  /\ allowance_contract_callers = <<>>
  /\ debug_mode = DEBUG_MODE
  /\ burn_header_hashes = <<>>
  /\ send_many_last_request_id = 0
  /\ send_many_requests = <<>>

\* the call has been answered; the next one can be made
Return ==
  /\ call # NoCall
  /\ call' = NoCall
  /\ ret' = NoRet
  /\ UNCHANGED <<debug_burn_header_hashes, assetVars, outerVars>>

DebugInsertBurnHeaderHash ==
  /\ call = NoCall
  /\ \E hh \in StoredHashes, h \in Heights : debug_insert_burn_header_hash(hh, h)

VerifyBlockHeader ==
  /\ call = NoCall
  /\ \E hd \in HeaderArgs, h \in Heights : call_verify_block_header(hd, h)

VerifyMerkleProof ==
  /\ call = NoCall
  /\ \E l \in LeafArgs, r \in RootArgs, p \in LastProofs : call_verify_merkle_proof(l, r, p)

WasTxidMined ==
  /\ call = NoCall
  /\ \E h \in Heights, t \in TxidArgs, hd \in HeaderArgs, p \in LastProofs :
       call_was_txid_mined(h, t, hd, p)

Next ==
  \/ DebugInsertBurnHeaderHash
  \/ VerifyBlockHeader
  \/ VerifyMerkleProof
  \/ WasTxidMined
  \/ Return

Spec == Init /\ [][Next]_vars

\* the header hash of the block is recorded at its height
DebugInsertMinedHeaderHash ==
  /\ call = NoCall
  /\ debug_insert_burn_header_hash(Rev(hash256(BigHeader)), MinedHeight)

Mint ==
  /\ call = NoCall
  /\ \E amount \in Amounts, destination \in Holders, d \in BitcoinTxData, c \in Callers :
       mint(amount, destination, d.txid, d.height, d.hashes, d.tx_index, d.header,
            c.tx_sender, c.contract_caller)

Burn ==
  /\ call = NoCall
  /\ \E amount \in Amounts, owner \in Holders, d \in BitcoinTxData, c \in Callers :
       burn(amount, owner, d.txid, d.height, d.hashes, d.tx_index, d.header,
            c.tx_sender, c.contract_caller)

SetContractOwner ==
  /\ call = NoCall
  /\ \E new_owner \in Principals, c \in Callers :
       set_contract_owner(new_owner, c.tx_sender, c.contract_caller)

SetBitcoinWalletPublicKey ==
  /\ call = NoCall
  /\ \E public_key \in WalletKeys, c \in Callers :
       set_bitcoin_wallet_public_key(public_key, c.tx_sender, c.contract_caller)

NextAsset ==
  \/ DebugInsertMinedHeaderHash
  \/ Mint
  \/ Burn
  \/ SetContractOwner
  \/ SetBitcoinWalletPublicKey
  \/ Return

\* the asset contract with the verifier it calls
SpecAsset == Init /\ [][NextAsset]_vars

\* the token operations: tokens are minted for and burnt from a wallet and a
\* contract, moved between the two, and burnt for a withdrawal request; the
\* callers are the owner, the wallet, and the wallet through the contract
TokenHolders == {"wallet_1", "proxy"}
TokenAmounts == 0..MaxAmount
TokenTxData == {MinedTx(0, MinedHeight), MinedTx(MaxLeaves - 1, MinedHeight)}
OwnerCallers == {[tx_sender |-> "deployer", contract_caller |-> "deployer"],
                 [tx_sender |-> "wallet_1", contract_caller |-> "wallet_1"]}
TransferCallers == {[tx_sender |-> "deployer", contract_caller |-> "deployer"],
                    [tx_sender |-> "wallet_1", contract_caller |-> "wallet_1"],
                    [tx_sender |-> "wallet_1", contract_caller |-> "proxy"]}
BtcRecipient == [hashbytes |-> LitBuf(0, 20), version |-> LitBuf(0, 1)]

MintToken ==
  /\ call = NoCall
  /\ \E amount \in TokenAmounts, destination \in TokenHolders, d \in TokenTxData,
        c \in OwnerCallers :
       mint(amount, destination, d.txid, d.height, d.hashes, d.tx_index, d.header,
            c.tx_sender, c.contract_caller)

BurnToken ==
  /\ call = NoCall
  /\ \E amount \in TokenAmounts, owner \in TokenHolders, d \in TokenTxData,
        c \in OwnerCallers :
       burn(amount, owner, d.txid, d.height, d.hashes, d.tx_index, d.header,
            c.tx_sender, c.contract_caller)

Transfer ==
  /\ call = NoCall
  /\ \E amount \in TokenAmounts, sender \in TokenHolders, recipient \in TokenHolders,
        c \in TransferCallers :
       transfer(amount, sender, recipient, None, c.tx_sender, c.contract_caller)

RequestWithdrawalToken ==
  /\ call = NoCall
  /\ last_request_id < MaxRequests
  /\ \E amount \in 1..MaxAmount :
       request_withdrawal(amount, BtcRecipient, "wallet_1", "wallet_1")

BurnByRequestIdToken ==
  /\ call = NoCall
  /\ \E request_id \in 1..MaxRequests, c \in OwnerCallers :
       burn_by_request_id(request_id, c.tx_sender, c.contract_caller)

NextToken ==
  \/ DebugInsertMinedHeaderHash
  \/ MintToken
  \/ BurnToken
  \/ Transfer
  \/ RequestWithdrawalToken
  \/ BurnByRequestIdToken
  \/ Return

\* the token of the asset contract
SpecToken == Init /\ [][NextToken]_vars

\* the withdrawal requests: a wallet is funded by mints; requests are made for
\* nothing, for amounts up to more than any balance and for the largest uint,
\* by two wallets directly and by one through a contract it has not allowed;
\* requests are cancelled, and burnt by the owner and by a wallet
RequestAmounts == 0..(MaxAmount + 1) \cup {-1}
RequestCallers == {[tx_sender |-> "wallet_1", contract_caller |-> "wallet_1"],
                   [tx_sender |-> "wallet_2", contract_caller |-> "wallet_2"],
                   [tx_sender |-> "wallet_1", contract_caller |-> "proxy"]}
RequestIds == 1..MaxRequests

MintFunds ==
  /\ call = NoCall
  /\ \E d \in TokenTxData :
       mint(MaxAmount, "wallet_1", d.txid, d.height, d.hashes, d.tx_index, d.header,
            "deployer", "deployer")

RequestWithdrawal ==
  /\ call = NoCall
  /\ last_request_id < MaxRequests
  /\ \E amount \in RequestAmounts, c \in RequestCallers :
       request_withdrawal(amount, BtcRecipient, c.tx_sender, c.contract_caller)

CancleRequest ==
  /\ call = NoCall
  /\ \E request_id \in RequestIds, c \in RequestCallers :
       cancle_request(request_id, c.tx_sender, c.contract_caller)

BurnByRequestId ==
  /\ call = NoCall
  /\ \E request_id \in RequestIds, c \in OwnerCallers :
       burn_by_request_id(request_id, c.tx_sender, c.contract_caller)

NextRequests ==
  \/ DebugInsertMinedHeaderHash
  \/ MintFunds
  \/ RequestWithdrawal
  \/ CancleRequest
  \/ BurnByRequestId
  \/ Return

\* the withdrawal requests of the asset contract
SpecRequests == Init /\ [][NextRequests]_vars

\* the request ids: up to MaxIssued requests are made, by two wallets and by
\* one through a contract it has not allowed, and any of them is cancelled
RequestWithdrawalIssued ==
  /\ call = NoCall
  /\ last_request_id < MaxIssued
  /\ \E c \in RequestCallers :
       request_withdrawal(MaxAmount, BtcRecipient, c.tx_sender, c.contract_caller)

CancleIssuedRequest ==
  /\ call = NoCall
  /\ \E request_id \in 1..MaxIssued, c \in RequestCallers :
       cancle_request(request_id, c.tx_sender, c.contract_caller)

NextIds ==
  \/ RequestWithdrawalIssued
  \/ CancleIssuedRequest
  \/ Return

\* the ids of the withdrawal requests
SpecIds == Init /\ [][NextIds]_vars

\* sbtc-send-many: a wallet is funded by mints and passes tokens on to the
\* contract; it requests payments to two recipients, to one, to one recipient
\* twice, to the contract itself, with an entry of amount 0 next to a
\* positive one, and of amount 0 only; the requester and another wallet call
\* fulfill-send-request
Payment(to, sats) == [to |-> to, sbtc_in_sats |-> sats, memo |-> <<>>]
RecipientLists ==
  {<<Payment("wallet_2", MaxAmount), Payment("deployer", MaxAmount)>>,
   <<Payment("wallet_2", MaxAmount)>>,
   <<Payment("wallet_2", MaxAmount), Payment("wallet_2", MaxAmount)>>,
   <<Payment(SendMany, MaxAmount)>>,
   <<Payment("wallet_2", 0), Payment("deployer", MaxAmount)>>,
   <<Payment("wallet_2", 0)>>}
SendManyCallers == {"wallet_1", "wallet_2"}

FundSendMany ==
  /\ call = NoCall
  /\ transfer(MaxAmount, "wallet_1", SendMany, None, "wallet_1", "wallet_1")

RequestSendSbtcMany ==
  /\ call = NoCall
  /\ send_many_last_request_id < MaxRequests
  /\ \E recipients \in RecipientLists : request_send_sbtc_many(recipients, "wallet_1")

FulfillSendRequest ==
  /\ call = NoCall
  /\ \E request_id \in RequestIds, tx_sender \in SendManyCallers :
       fulfill_send_request(request_id, tx_sender)

NextSendMany ==
  \/ DebugInsertMinedHeaderHash
  \/ MintFunds
  \/ FundSendMany
  \/ RequestSendSbtcMany
  \/ FulfillSendRequest
  \/ Return

\* sbtc-send-many with the asset contract it pays from
SpecSendMany == Init /\ [][NextSendMany]_vars

\* the deploy version: DEBUG-MODE is false, and the burn chain grows by
\* blocks whose header hashes get-burn-block-info? answers
InitDeploy ==
  /\ debug_burn_header_hashes = <<>>
  /\ call = NoCall
  /\ ret = NoRet
  /\ contract_owner = "deployer"
  /\ bitcoin_wallet_public_key = None
  /\ amounts_by_btc_tx = <<>>
  /\ sbtc_balances = [p \in Accounts |-> 0]
  /\ sbtc_supply = 0
  /\ last_request_id = 0
  /\ amounts_by_request_id = <<>>
  /\ requests = <<>>
  /\ allowance_contract_callers = <<>>
  /\ debug_mode = FALSE
  /\ burn_header_hashes = <<>>
  /\ send_many_last_request_id = 0
  /\ send_many_requests = <<>>

\* a block with the header hash is mined on the burn chain
MineBurnBlock ==
  /\ call = NoCall
  /\ Len(burn_header_hashes) <= MaxHeight
  /\ \E header_hash \in StoredHashes :
       burn_header_hashes' = Append(burn_header_hashes, header_hash)
  /\ UNCHANGED <<debug_burn_header_hashes, call, ret, assetVars, debug_mode,
                 send_many_last_request_id, send_many_requests>>

NextDeploy ==
  \/ DebugInsertBurnHeaderHash
  \/ MineBurnBlock
  \/ VerifyBlockHeader
  \/ WasTxidMined
  \/ Return

\* the verifier as it is deployed
SpecDeploy == InitDeploy /\ [][NextDeploy]_vars

\* the allowances: two wallets allow the contract, for ever or until a burn
\* height (the first, the next, the last the chain reaches), and disallow
\* it, directly and through the contract; the burn chain grows; requests are
\* made and cancelled directly and through the contract
AllowContractCaller ==
  /\ call = NoCall
  /\ \E until_burn_ht \in {None, Some(0), Some(1), Some(MaxHeight + 1)},
        c \in RequestCallers :
       allow_contract_caller("proxy", until_burn_ht, c.tx_sender, c.contract_caller)

DisallowContractCaller ==
  /\ call = NoCall
  /\ \E c \in RequestCallers :
       disallow_contract_caller("proxy", c.tx_sender, c.contract_caller)

RequestWithdrawalThrough ==
  /\ call = NoCall
  /\ last_request_id < MaxRequests
  /\ \E c \in RequestCallers :
       request_withdrawal(MaxAmount, BtcRecipient, c.tx_sender, c.contract_caller)

NextAllowance ==
  \/ AllowContractCaller
  \/ DisallowContractCaller
  \/ MineBurnBlock
  \/ RequestWithdrawalThrough
  \/ CancleRequest
  \/ Return

\* the contract-caller allowances of the asset contract
SpecAllowance == Init /\ [][NextAllowance]_vars

\* the buffers the byte reversals are applied to: literal data, digests,
\* literal data followed by part of a digest, a buffer of 32 equal bytes, and
\* buffers shorter than the full length
ZeroBuf == [i \in 1..HashLen |-> Lit(0)]
Buf32Args ==
  {LitBuf(seed, HashLen) : seed \in 0..MaxSeed} \cup SiblingPool
    \cup {SubSeq(LitBuf(seed, HashLen), 1, 10) \o SubSeq(hash256(Leaf(1)), 11, HashLen) : seed \in 0..3}
    \cup {ZeroBuf, ShortBuf, <<>>}
Buf16Args ==
  {LitBuf(seed, 16) : seed \in 0..MaxSeed} \cup {SubSeq(x, 9, 24) : x \in SiblingPool}
    \cup {SubSeq(ZeroBuf, 1, 16), LitBuf(0, 5), <<>>}

ReverseBuff16 ==
  /\ call = NoCall
  /\ \E x \in Buf16Args : call_reverse_buff16(x)

ReverseBuff32 ==
  /\ call = NoCall
  /\ \E x \in Buf32Args : call_reverse_buff32(x)

NextReverse ==
  \/ ReverseBuff16
  \/ ReverseBuff32
  \/ Return

\* the two byte reversals alone
SpecReverse == Init /\ [][NextReverse]_vars

\* verify-merkle-proof alone, over every proof made of the nodes of the tree
VerifyMerkleProofAny ==
  /\ call = NoCall
  /\ \E l \in LeafArgs, r \in RootArgs, p \in Proofs : call_verify_merkle_proof(l, r, p)

NextMerkle ==
  \/ VerifyMerkleProofAny
  \/ Return

SpecMerkle == Init /\ [][NextMerkle]_vars

(***************************************************************************)
(* Reference definitions the properties are stated with.                   *)
(***************************************************************************)
\* byte reversal: output byte i is input byte Len - 1 - i
FullReverse(x) == [i \in 1..Len(x) |-> x[Len(x) + 1 - i]]

\* bit i of the uint u
BitOf(u, i) == (u \div Pow2(i)) % 2

\* the addition 2^n + tx_index leaves the uint range
PathOverflows(n, tx_index) == tx_index < 0 /\ tx_index + Pow2(n) >= 0

\* the running hash after the first j siblings, by the left/right rule
RECURSIVE Walk(_, _, _, _)
Walk(cur, hashes, path, j) ==
  IF j = 0 THEN cur
  ELSE LET prev == Walk(cur, hashes, path, j - 1)
       IN IF BitOf(path, j - 1) = 0 THEN hash256(prev \o hashes[j])
          ELSE hash256(hashes[j] \o prev)

\* the header hash recorded at the height is the reversed double hash of the header
HeaderRecorded(store, header, height) ==
  height \in DOMAIN store /\ store[height] = FullReverse(hash256(header))

\* x with the byte at position i replaced by a different literal byte
FlipByte(x, i) == [x EXCEPT ![i] = IF x[i] = Lit(0) THEN Lit(1) ELSE Lit(0)]

\* values different from x that x is replaced by: the nodes of the tree, the
\* leaves and roots the calls are made with, the byte reversal of x and x
\* with its first or its last byte changed
Replacements(x) ==
  (LeafArgs \cup RootArgs \cup SiblingPool
     \cup (IF Len(x) = 0 THEN {} ELSE {FullReverse(x), FlipByte(x, 1), FlipByte(x, Len(x))}))
    \ {x}

IsVmpCall == call.op = "verify-merkle-proof"
IsWtmCall == call.op = "was-txid-mined"
IsVbhCall == call.op = "verify-block-header"
ReadOnlyOps == {"verify-block-header", "verify-merkle-proof", "was-txid-mined"}

\* what the read-only call c returns when it is made on the store
Outcome(store, c) ==
  CASE c.op = "verify-block-header" -> Bool(verify_block_header(store, c.header, c.height))
    [] c.op = "verify-merkle-proof" ->
         verify_merkle_proof(c.txid, c.root, [tx_index |-> c.tx_index, hashes |-> c.hashes])
    [] c.op = "was-txid-mined" ->
         was_txid_mined(store, c.height, c.txid, c.header,
                        [tx_index |-> c.tx_index, hashes |-> c.hashes])

\* what was-txid-mined returns for the Bitcoin transaction data of the mint
\* or burn call c
CallTxMined(c) ==
  was_txid_mined(debug_burn_header_hashes, c.height, c.txid, c.header,
                 [tx_index |-> c.tx_index, hashes |-> c.hashes])

IsMintOrBurn(c) == c.op \in {"mint", "burn"}
OwnerOnlyOps == {"mint", "burn", "set-bitcoin-wallet-public-key", "set-contract-owner"}

\* balances, supply and the amounts recorded by Bitcoin txid
tokenVars == <<sbtc_balances, sbtc_supply, amounts_by_btc_tx>>

\* what the owner-only calls return when the principal p makes them, directly
\* or as the contract called by any sender: the owner check of
\* set-contract-owner and set-bitcoin-wallet-public-key, and mint and burn with
\* every argument
OwnerOnlyResults(p) ==
  {is_contract_owner(ts, p) : ts \in Principals}
    \cup {mint_result(a, h, d.txid, d.height, d.hashes, d.tx_index, d.header, ts, p) :
            a \in Amounts, h \in Holders, d \in BitcoinTxData, ts \in Principals}
    \cup {burn_result(a, h, d.txid, d.height, d.hashes, d.tx_index, d.header, ts, p) :
            a \in Amounts, h \in Holders, d \in BitcoinTxData, ts \in Principals}

\* the principals that pass the owner check
Owners == {p \in Accounts : is_contract_owner(p, p) = OkTrue}

\* the mint or burn call c gets as far as the token operation, which fails:
\* a mint of amount 0, a burn of amount 0 or of more than the balance
TokenOperationFails(c) ==
  /\ IsMintOrBurn(c)
  /\ c.contract_caller = contract_owner
  /\ CallTxMined(c) = OkTrue
  /\ c.txid \notin DOMAIN amounts_by_btc_tx
  /\ c.amount >= 0
  /\ \/ c.amount = 0
     \/ c.op = "burn" /\ c.amount > sbtc_balances[c.principal]

\* the request of the principal that calls fulfill-send-request in c
RequestKey(c) == [owner |-> c.tx_sender, request_id |-> c.request_id]

\* the sum of the amounts the list gives to the principal p
RECURSIVE Listed(_, _)
Listed(recipients, p) ==
  IF recipients = <<>> THEN 0
  ELSE (IF Head(recipients).to = p THEN Head(recipients).sbtc_in_sats ELSE 0)
         + Listed(Tail(recipients), p)

\* the sum of the amounts of the list
RECURSIVE Total(_)
Total(recipients) ==
  IF recipients = <<>> THEN 0
  ELSE Head(recipients).sbtc_in_sats + Total(Tail(recipients))

\* what the debug store could hold: nothing, or one hash at one height
DebugStores == {<<>>} \cup {MapSet(<<>>, h, hh) : h \in Heights, hh \in StoredHashes}

\* the call c comes through a contract
Through(c) == c.tx_sender # c.contract_caller

\* the sender of the call c holds an allowance for its contract-caller that
\* is indefinite or ends above the current burn height
HoldsAllowance(c) ==
  \E key \in DOMAIN allowance_contract_callers :
    /\ key = [sender |-> c.tx_sender, contract_caller |-> c.contract_caller]
    /\ \/ allowance_contract_callers[key].until_burn_ht = None
       \/ /\ allowance_contract_callers[key].until_burn_ht # None
          /\ allowance_contract_callers[key].until_burn_ht[1] > burn_block_height
RequestOps == {"request-withdrawal", "cancle-request"}
AllowanceOps == {"allow-contract-caller", "disallow-contract-caller"}

\* the txids mint and burn are called with
CalledTxids == {d.txid : d \in BitcoinTxData}

\* the sum of f over the set S
RECURSIVE SumOver(_, _)
SumOver(f, S) ==
  IF S = {} THEN 0
  ELSE LET x == CHOOSE y \in S : TRUE IN f[x] + SumOver(f, S \ {x})

\* the wallets of the test model after the command c with the result r: a
\* mint adds the amount to the destination, a burn takes it from the owner, a
\* transfer moves it from the sender to the recipient
ModelWallets(wallets, c, r) ==
  IF r # OkTrue THEN wallets
  ELSE CASE c.op = "mint" -> [wallets EXCEPT ![c.principal] = @ + c.amount]
         [] c.op = "burn" -> [wallets EXCEPT ![c.principal] = @ - c.amount]
         [] c.op = "transfer" ->
              [w \in DOMAIN wallets |->
                 IF w = c.principal THEN wallets[w] - c.amount
                 ELSE IF w = c.recipient THEN wallets[w] + c.amount
                 ELSE wallets[w]]
         [] OTHER -> wallets
ModelCommands == {"mint", "burn", "transfer"}

CallProof == [tx_index |-> call.tx_index, hashes |-> call.hashes]
CallDepth == Len(call.hashes)
CallPath == Pow2(CallDepth) + call.tx_index

\* the call's arguments are a leaf of a tree, the tree's root, the leaf's
\* index and the first m siblings of its path
FromTree(n, i, m) ==
  /\ call.txid = Tree(n)[i + 1]
  /\ call.root = MerkleRoot(Tree(n))
  /\ call.tx_index = i
  /\ call.hashes = SubSeq(MerklePath(Tree(n), i), 1, m)

\* in a was-txid-mined call: the Merkle proof check, on its own, returns true
WtmProofVerifies ==
  /\ Len(call.header) >= block_header_merkle_root_end
  /\ Len(call.txid) = HashLen
  /\ verify_merkle_proof(FullReverse(call.txid),
       SubSeq(call.header, block_header_merkle_root_start + 1, block_header_merkle_root_end),
       CallProof) = Bool(TRUE)

(***************************************************************************)
(* Properties.                                                             *)
(***************************************************************************)

\* C1: was-txid-mined returns (ok true) exactly when verify-block-header is
\* true and verify-merkle-proof on the reversed txid and header bytes [36,68)
\* is true; in every other case it returns an err value.
C1_OkTrueIffBothElseErr ==
  IsWtmCall =>
    LET both == /\ verify_block_header(debug_burn_header_hashes, call.header, call.height)
                /\ WtmProofVerifies
    IN /\ (ret = OkTrue) <=> both
       /\ ~both => ret.k = "err"

\* C2: verify-block-header(H, h) is true iff a hash is recorded at h and it
\* is the byte reversal of sha256(sha256(H)); a header that verifies at h
\* verifies false at every height whose recorded hash is different.
C2_HeaderVerifiesIffRecorded ==
  IsVbhCall =>
    /\ (ret = Bool(TRUE)) <=> HeaderRecorded(debug_burn_header_hashes, call.header, call.height)
    /\ ret = Bool(TRUE) =>
         \A h2 \in DOMAIN debug_burn_header_hashes :
           debug_burn_header_hashes[h2] # debug_burn_header_hashes[call.height]
             => ~verify_block_header(debug_burn_header_hashes, call.header, h2)

C2_Witness ==
  /\ IsVbhCall
  /\ ret = Bool(TRUE)
  /\ \E h2 \in DOMAIN debug_burn_header_hashes :
       debug_burn_header_hashes[h2] # debug_burn_header_hashes[call.height]

\* C3: for every Merkle tree and every leaf of it, verify-merkle-proof called
\* with the leaf, the root, the leaf's index and its bottom-to-top siblings
\* returns true.
C3_TreeProofVerifies ==
  IsVmpCall =>
    \A n \in TreeSizes : \A i \in 0..(n - 1) :
      FromTree(n, i, MerkleDepth(Tree(n))) => ret = Bool(TRUE)

C5_StepFollowsPathBit ==
  (IsVmpCall /\ ~PathOverflows(CallDepth, call.tx_index)) =>
    \A i \in 0..(CallDepth - 1) :
      LET init == [path |-> CallPath, root_hash |-> call.root,
                   proof_hashes |-> call.hashes, cur_hash |-> call.txid,
                   verified |-> FALSE]
          cur == FoldCtr(0, i, init).cur_hash
          next == FoldCtr(0, i + 1, init).cur_hash
      IN next = IF BitOf(CallPath, i) = 0 THEN hash256(cur \o call.hashes[i + 1])
                ELSE hash256(call.hashes[i + 1] \o cur)

C5_Witness ==
  /\ IsVmpCall
  /\ CallDepth = 2
  /\ BitOf(CallPath, 0) = 0
  /\ BitOf(CallPath, 1) = 1
  /\ ret = Bool(TRUE)

\* C6: with no sibling hashes (single-transaction block, tx-index 0),
\* verify-merkle-proof returns true when the leaf equals the root and false
\* when it differs.
C6_EmptyProofComparesLeafToRoot ==
  (IsVmpCall /\ CallDepth = 0 /\ call.tx_index = 0) => ret = Bool(call.txid = call.root)

\* C7: verify-merkle-proof returns ERR-PROOF-TOO-SHORT when the proof has
\* fewer sibling hashes than the depth of the tree that links the leaf to the
\* root.
C7_TruncatedProofIsTooShort ==
  IsVmpCall =>
    \A n \in TreeSizes : \A i \in 0..(n - 1) : \A m \in 0..(MerkleDepth(Tree(n)) - 1) :
      FromTree(n, i, m) => ret = ERR_PROOF_TOO_SHORT

\* C8: when header bytes [36,68) exist and verify-block-header is false,
\* was-txid-mined returns ERR-HEADER-HEIGHT-MISMATCH, whether or not the
\* Merkle proof would verify.
C8_HeaderMismatchFirst ==
  (/\ IsWtmCall
   /\ Len(call.header) >= block_header_merkle_root_end
   /\ ~verify_block_header(debug_burn_header_hashes, call.header, call.height))
    => ret = ERR_HEADER_HEIGHT_MISMATCH

C8_Witness ==
  /\ IsWtmCall
  /\ ~verify_block_header(debug_burn_header_hashes, call.header, call.height)
  /\ WtmProofVerifies
  /\ ret = ERR_HEADER_HEIGHT_MISMATCH

\* C9: when the header verifies at the height and verify-merkle-proof does
\* not return true, was-txid-mined returns ERR-INVALID-MERKLE-PROOF.
C9_RejectedProofIsErr7 ==
  (/\ IsWtmCall
   /\ verify_block_header(debug_burn_header_hashes, call.header, call.height)
   /\ ~WtmProofVerifies)
    => ret = ERR_INVALID_MERKLE_PROOF

\* C10: was-txid-mined returns ERR-INVALID-BLOCK-HEADER-LENGTH for every
\* header whose length is not 80 bytes.
C10_Not80BytesIsErr9 ==
  (IsWtmCall /\ Len(call.header) # HeaderLen) => ret = ERR_INVALID_BLOCK_HEADER_LENGTH

\* C11: for a height with no recorded header hash, verify-block-header
\* returns the boolean false for every header, never an error value or an
\* abort.
C11_StoreMissIsFalse ==
  (IsVbhCall /\ call.height \notin DOMAIN debug_burn_header_hashes) => ret = Bool(FALSE)

C11_Witness ==
  /\ IsVbhCall
  /\ call.height \notin DOMAIN debug_burn_header_hashes
  /\ \E h \in DOMAIN debug_burn_header_hashes :
       HeaderRecorded(debug_burn_header_hashes, call.header, h)
  /\ ret = Bool(FALSE)

\* C12: if verify-merkle-proof returns true for (leaf, root, proof), then
\* with the leaf, the root or any single sibling replaced by a different
\* value it returns false; in particular the byte-reversed (un-reversed) form
\* of a verifying leaf does not verify.
C12_ReplacedValueDoesNotVerify ==
  (IsVmpCall /\ ret = Bool(TRUE)) =>
    /\ \A l \in Replacements(call.txid) :
         verify_merkle_proof(l, call.root, CallProof) = Bool(FALSE)
    /\ \A r \in Replacements(call.root) :
         verify_merkle_proof(call.txid, r, CallProof) = Bool(FALSE)
    /\ \A j \in 1..CallDepth : \A s \in Replacements(call.hashes[j]) :
         verify_merkle_proof(call.txid, call.root,
           [CallProof EXCEPT !.hashes[j] = s]) = Bool(FALSE)

C12_Witness ==
  /\ IsVmpCall
  /\ ret = Bool(TRUE)
  /\ CallDepth = 2
  /\ call.tx_index = 1
  /\ FullReverse(call.txid) \in Replacements(call.txid)

\* C13: for every input the parameter types admit, verify-block-header,
\* verify-merkle-proof and was-txid-mined return a value (a boolean, ok or
\* err) and never abort with a runtime panic or an arithmetic error.
C13_NeverAborts ==
  call.op \in ReadOnlyOps => ret.k \in {"bool", "ok", "err"}

\* C14: verify-block-header, verify-merkle-proof and was-txid-mined are
\* read-only: a call changes neither the height-to-hash store nor any other
\* state, and what it returns is determined by the store and its arguments,
\* so a repeated call with no store write in between returns the same.
C14_ReadOnlyCalls ==
  [][call'.op \in ReadOnlyOps =>
       /\ debug_burn_header_hashes' = debug_burn_header_hashes
       /\ assetVars' = assetVars
       /\ ret' = Outcome(debug_burn_header_hashes, call')]_vars

C14_Witness ==
  /\ IsWtmCall
  /\ ret = OkTrue
  /\ DOMAIN debug_burn_header_hashes = Heights

\* C15: the height-to-hash store is append-only: once a header hash is
\* recorded for a height no later operation, a further
\* debug-insert-burn-header-hash for that height included, replaces or
\* removes it.
C15_StoreAppendOnly ==
  [][\A h \in DOMAIN debug_burn_header_hashes :
       /\ h \in DOMAIN debug_burn_header_hashes'
       /\ debug_burn_header_hashes'[h] = debug_burn_header_hashes[h]]_vars

\* C16: for every 32-byte buffer x, reverse-buff32(x) is the full byte
\* reversal of x: output byte i is input byte 31 - i.
C16_ReverseBuff32IsFullReversal ==
  (call.op = "reverse-buff32" /\ Len(call.input) = HashLen) =>
    /\ ret.k = "buff"
    /\ Len(ret.v) = HashLen
    /\ \A i \in 0..(HashLen - 1) : ret.v[i + 1] = call.input[(HashLen - 1 - i) + 1]

C16_Witness ==
  /\ call.op = "reverse-buff32"
  /\ Len(call.input) = HashLen
  /\ call.input[1].k = "lit"
  /\ call.input[HashLen].k = "sha"
  /\ ret.k = "buff"

\* C17: round trip: reverse-buff32(reverse-buff32(x)) = x for every 32-byte
\* buffer x, and reverse-buff16(reverse-buff16(y)) = y for every 16-byte
\* buffer y.
C17_ReverseRoundTrip ==
  /\ (call.op = "reverse-buff32" /\ Len(call.input) = HashLen) =>
       (ret.k = "buff" /\ reverse_buff32(ret.v) = Some(call.input))
  /\ (call.op = "reverse-buff16" /\ Len(call.input) = 16) =>
       (ret.k = "buff" /\ reverse_buff16(ret.v) = call.input)

C17_Witness ==
  /\ call.op = "reverse-buff16"
  /\ Len(call.input) = 16
  /\ ret.k = "buff"
  /\ ret.v # call.input
  /\ call.input[1].k = "sha"

\* C18: mint and burn succeed only if was-txid-mined returns (ok true) for
\* the txid, height, header and proof of that call, and only then change a
\* balance or the supply; when the verification the owner's call runs returns
\* an error, mint/burn return that same error (u6, u7 or u9), no tokens are
\* minted or burned and the txid is not recorded.
C18_MintBurnOnlyForProvenTx ==
  [][IsMintOrBurn(call') =>
       LET v == CallTxMined(call')
       IN /\ ret'.k = "ok" => v = OkTrue
          /\ (sbtc_balances' # sbtc_balances \/ sbtc_supply' # sbtc_supply) => v = OkTrue
          /\ (call'.contract_caller = contract_owner /\ v.k = "err") =>
               /\ ret' = v
               /\ ret' \in {Err(6), Err(7), Err(9)}
               /\ tokenVars' = tokenVars]_vars

C18_Witness ==
  /\ call.op = "burn"
  /\ call.contract_caller = contract_owner
  /\ call.amount > 0
  /\ sbtc_balances[call.principal] >= call.amount
  /\ call.txid \notin DOMAIN amounts_by_btc_tx
  /\ CallTxMined(call) = ERR_INVALID_MERKLE_PROOF
  /\ ret = ERR_INVALID_MERKLE_PROOF

\* C19: each Bitcoin txid is accepted at most once across mint and burn
\* together: after a successful mint or burn with txid T, every later mint or
\* burn with T by the owner with a valid proof returns err u500 and leaves
\* all balances, the total supply and the amount recorded for T unchanged.
C19_UsedTxidIsErr500 ==
  [][IsMintOrBurn(call') =>
       /\ ret' = OkTrue =>
            (call'.txid \notin DOMAIN amounts_by_btc_tx
               /\ call'.txid \in DOMAIN amounts_by_btc_tx')
       /\ (/\ call'.contract_caller = contract_owner
           /\ call'.txid \in DOMAIN amounts_by_btc_tx
           /\ CallTxMined(call') = OkTrue) =>
            (ret' = err_btc_tx_already_used /\ tokenVars' = tokenVars)]_vars

\* C19, amended: a later mint or burn with T by the owner with a valid proof
\* changes no balance, not the supply and not the amount recorded for T; it
\* returns err u500 when the amount is below 2^127 and aborts in to-int,
\* before the txid is looked up, when the amount is 2^127 or more.
C19_UsedTxidIsRejected ==
  [][IsMintOrBurn(call') =>
       /\ ret' = OkTrue =>
            (call'.txid \notin DOMAIN amounts_by_btc_tx
               /\ call'.txid \in DOMAIN amounts_by_btc_tx')
       /\ (/\ call'.contract_caller = contract_owner
           /\ call'.txid \in DOMAIN amounts_by_btc_tx
           /\ CallTxMined(call') = OkTrue) =>
            /\ ret' = IF to_int(call'.amount) = None THEN RuntimeError
                      ELSE err_btc_tx_already_used
            /\ tokenVars' = tokenVars]_vars

C19_Witness ==
  /\ call.op = "burn"
  /\ call.contract_caller = contract_owner
  /\ call.txid \in DOMAIN amounts_by_btc_tx
  /\ amounts_by_btc_tx[call.txid] > 0
  /\ call.amount > 0
  /\ sbtc_balances[call.principal] >= call.amount
  /\ CallTxMined(call) = OkTrue
  /\ ret = err_btc_tx_already_used

\* C20: mint, burn, set-bitcoin-wallet-public-key and set-contract-owner
\* succeed only when contract-caller is the current contract owner; for any
\* other caller they return err u403 whatever the other arguments and leave
\* balances, supply, recorded txids, owner and wallet key unchanged.
C20_OwnerOnly ==
  [][call'.op \in OwnerOnlyOps =>
       /\ ret'.k = "ok" => call'.contract_caller = contract_owner
       /\ call'.contract_caller # contract_owner =>
            (ret' = err_forbidden /\ assetVars' = assetVars)]_vars

C20_Witness ==
  /\ call.op = "mint"
  /\ call.contract_caller # contract_owner
  /\ call.tx_sender = contract_owner
  /\ call.amount > 0
  /\ call.txid \notin DOMAIN amounts_by_btc_tx
  /\ CallTxMined(call) = OkTrue
  /\ ret = err_forbidden

\* C21: after any sequence of mint, burn, burn-by-request-id and transfer
\* calls, successful or failed, get-total-supply is the sum of get-balance
\* over all principals.
C21_SupplyIsSumOfBalances ==
  get_total_supply = OkUint(SumOver([p \in Accounts |-> get_balance(p).v], Accounts))

C21_Witness ==
  /\ call.op = "burn-by-request-id"
  /\ ret = OkTrue
  /\ sbtc_balances["proxy"] > 0
  /\ sbtc_supply > 0

\* C22: the balances follow the test model: they start at zero; a successful
\* mint adds the amount to the destination only, a successful burn takes it
\* from the owner only, a successful transfer moves it from the sender to the
\* recipient, and a failed call changes no balance, so that get-balance
\* answers the model's balance after every sequence of these commands.
C22_BalancesFollowModel ==
  [][call'.op \in ModelCommands =>
       \A w \in Accounts :
         get_balance(w)' = OkUint(ModelWallets(sbtc_balances, call', ret')[w])]_vars

C22_Witness ==
  /\ call.op = "transfer"
  /\ ret = OkTrue
  /\ call.amount > 0
  /\ sbtc_balances[call.recipient] >= call.amount
  /\ sbtc_balances[call.principal] > 0

C24_HandOver ==
  /\ Cardinality(Owners) = 1
  /\ call.op = "set-contract-owner" =>
       /\ ret \in {OkTrue, err_forbidden}
       /\ ret = err_forbidden =>
            (call.contract_caller # contract_owner /\ get_contract_owner # call.contract_caller)
       /\ ret = OkTrue =>
            /\ get_contract_owner = call.principal
            /\ call.contract_caller # call.principal =>
                 OwnerOnlyResults(call.contract_caller) = {err_forbidden}
            /\ err_forbidden \notin OwnerOnlyResults(call.principal)
            /\ \A ts \in Principals : is_contract_owner(ts, call.principal) = OkTrue

C24_Witness ==
  /\ call.op = "set-contract-owner"
  /\ call.contract_caller = "wallet_1"
  /\ call.principal = "proxy"
  /\ ret = OkTrue
  /\ get_contract_owner = "proxy"

\* C25: get-amount-by-btc-txid of a txid is none until a mint or burn with
\* it succeeds; a successful mint of amount a makes it (some a), a successful
\* burn of amount a makes it (some -a), and once it is set no call changes it.
C25_RecordedAmount ==
  [][\A T \in CalledTxids :
       /\ (IsMintOrBurn(call') /\ call'.txid = T /\ ret' = OkTrue) =>
            /\ get_amount_by_btc_txid(T) = None
            /\ get_amount_by_btc_txid(T)' =
                 Some(IF call'.op = "mint" THEN call'.amount ELSE 0 - call'.amount)
       /\ ~(IsMintOrBurn(call') /\ call'.txid = T /\ ret' = OkTrue) =>
            get_amount_by_btc_txid(T)' = get_amount_by_btc_txid(T)]_vars

C25_Witness ==
  /\ call.op = "burn"
  /\ ret = OkTrue
  /\ call.amount > 0
  /\ get_amount_by_btc_txid(call.txid) = Some(0 - call.amount)
  /\ \E T \in CalledTxids : get_amount_by_btc_txid(T) = Some(call.amount)

\* C28: verify-merkle-proof depends on tx-index only through its lowest
\* len(hashes) bits: a call with an index congruent to the call's index
\* modulo 2^len(hashes), and the same other arguments, returns the same.
C28_IndexMattersModuloDepth ==
  IsVmpCall =>
    \A j \in TxIndexes :
      j % Pow2(CallDepth) = call.tx_index % Pow2(CallDepth) =>
        verify_merkle_proof(call.txid, call.root, [CallProof EXCEPT !.tx_index = j]) = ret

\* C29: a mint or burn that passes the owner, proof and replay checks and
\* fails in the token operation returns err u1, records no txid and changes
\* no balance, so that a mint with the same txid succeeds afterwards, and so
\* does a burn from a principal that holds tokens.
C29_FailedTokenOperation ==
  [][TokenOperationFails(call') =>
       /\ ret' = Err(1)
       /\ assetVars' = assetVars
       /\ debug_burn_header_hashes' = debug_burn_header_hashes
       /\ call'.txid \notin DOMAIN amounts_by_btc_tx'
       /\ mint_result(1, call'.principal, call'.txid, call'.height, call'.hashes,
                      call'.tx_index, call'.header, contract_owner, contract_owner) = OkTrue
       /\ \A h \in Holders :
            sbtc_balances[h] > 0 =>
              burn_result(1, h, call'.txid, call'.height, call'.hashes,
                          call'.tx_index, call'.header, contract_owner, contract_owner) = OkTrue]_vars

C29_Witness ==
  /\ call.op = "burn"
  /\ ret = Err(1)
  /\ call.amount > sbtc_balances[call.principal]
  /\ call.amount > 0
  /\ \E h \in Holders : sbtc_balances[h] > 0
  /\ get_amount_by_btc_txid(call.txid) = None

\* C30 as stated: burn-by-request-id by the owner returns err u501 on every
\* call after the first successful one for the id.
C30_UsedIdIsErr501 ==
  [][(call'.op = "burn-by-request-id" /\ call'.contract_caller = contract_owner
        /\ call'.request_id \in DOMAIN amounts_by_request_id) =>
       ret' = err_request_id_already_used]_vars

\* C30: burn-by-request-id called by the owner returns err u404 when no
\* request with the id is stored (never created, or cancelled, also after a
\* successful burn), err u501 when the request is stored and a call for the
\* id succeeded before; a successful call is the first one for the id and
\* takes the request's amount from the request's owner and from the supply; a
\* failed call changes no balance and does not mark the id as used.
C30_BurnOncePerRequest ==
  [][(call'.op = "burn-by-request-id" /\ call'.contract_caller = contract_owner) =>
       LET id == call'.request_id
       IN /\ id \notin DOMAIN requests => ret' = err_not_found
          /\ (id \in DOMAIN requests /\ id \in DOMAIN amounts_by_request_id) =>
               ret' = err_request_id_already_used
          /\ ret' = OkTrue =>
               /\ id \in DOMAIN requests
               /\ id \notin DOMAIN amounts_by_request_id
               /\ id \in DOMAIN amounts_by_request_id'
               /\ sbtc_balances' =
                    [sbtc_balances EXCEPT ![requests[id].owner] = @ - requests[id].amount]
               /\ sbtc_supply' = sbtc_supply - requests[id].amount
          /\ ret' # OkTrue =>
               /\ tokenVars' = tokenVars
               /\ amounts_by_request_id' = amounts_by_request_id]_vars

C30_Witness ==
  /\ call.op = "burn-by-request-id"
  /\ call.contract_caller = contract_owner
  /\ call.request_id \in DOMAIN requests
  /\ requests[call.request_id].amount > 0
  /\ sbtc_balances[requests[call.request_id].owner] >= requests[call.request_id].amount
  /\ ret = err_request_id_already_used

\* C27: with DEBUG-MODE false, debug-insert-burn-header-hash returns
\* (ok false) and writes nothing, the debug store stays empty, and
\* get-burn-block-header-hash, verify-block-header and was-txid-mined answer
\* what they answer for any content of the debug store: the header hashes of
\* the burn chain alone decide.
C27_DeployIgnoresDebugStore ==
  [][/\ debug_burn_header_hashes' = <<>>
     /\ call'.op = "debug-insert-burn-header-hash" =>
          (ret' = OkFalse /\ burn_header_hashes' = burn_header_hashes
             /\ debug_burn_header_hashes' = debug_burn_header_hashes)
     /\ \A store \in DebugStores :
          /\ \A h \in Heights :
               get_burn_block_header_hash(store, h) = get_burn_block_info(h)
          /\ call'.op \in ReadOnlyOps => ret' = Outcome(store, call')]_vars

C27_Witness ==
  /\ ~debug_mode
  /\ call.op = "was-txid-mined"
  /\ ret = OkTrue
  /\ debug_burn_header_hashes = <<>>
  /\ Len(burn_header_hashes) > MinedHeight

\* C26: when the caller of fulfill-send-request has stored the request and
\* the send-many contract holds at least the request's total, the call adds
\* to the balance of every recipient the amounts listed for it and takes the
\* total from the balance of the send-many contract.
C26_FulfilPaysRecipients ==
  [][(call'.op = "fulfill-send-request"
        /\ RequestKey(call') \in DOMAIN send_many_requests
        /\ sbtc_balances[SendMany] >= Total(send_many_requests[RequestKey(call')])) =>
       LET recipients == send_many_requests[RequestKey(call')]
       IN \A p \in Accounts :
            sbtc_balances'[p] =
              sbtc_balances[p] + Listed(recipients, p)
                - (IF p = SendMany THEN Total(recipients) ELSE 0)]_vars

\* C32 as stated: request-withdrawal and cancle-request called through a
\* contract without an allowance in force return err u4.
C32_ThroughWithoutAllowanceIsErr4 ==
  [][(call'.op \in RequestOps /\ Through(call') /\ ~HoldsAllowance(call')) =>
       ret' = err_invalid_caller]_vars

\* C32: request-withdrawal and cancle-request called through a contract
\* succeed only while tx-sender holds an allowance for the contract-caller
\* that is indefinite or ends above the current burn height; without one they
\* change nothing and return err u4, except that cancle-request of an id with
\* no stored request returns err u404; allow-contract-caller and
\* disallow-contract-caller succeed exactly on direct calls, write the
\* allowance of tx-sender for the named contract, and change no allowance of
\* another sender.
C32_ThroughNeedsAllowance ==
  [][/\ (call'.op \in RequestOps /\ Through(call')) =>
          /\ ret'.k = "ok-uint" => HoldsAllowance(call')
          /\ ~HoldsAllowance(call') =>
               /\ requestVars' = requestVars
               /\ ret' = IF call'.op = "cancle-request"
                               /\ call'.request_id \notin DOMAIN requests
                         THEN err_not_found ELSE err_invalid_caller
     /\ call'.op \in AllowanceOps =>
          LET key == [sender |-> call'.tx_sender, contract_caller |-> call'.principal]
          IN /\ ret'.k = "ok" <=> ~Through(call')
             /\ Through(call') =>
                  (ret' = err_invalid_caller
                     /\ allowance_contract_callers' = allowance_contract_callers)
             /\ (~Through(call') /\ call'.op = "allow-contract-caller") =>
                  /\ key \in DOMAIN allowance_contract_callers'
                  /\ allowance_contract_callers'[key].until_burn_ht = call'.until_burn_ht
             /\ (~Through(call') /\ call'.op = "disallow-contract-caller") =>
                  key \notin DOMAIN allowance_contract_callers'
             /\ \A k \in DOMAIN allowance_contract_callers \cup DOMAIN allowance_contract_callers' :
                  k # key =>
                    /\ k \in DOMAIN allowance_contract_callers
                    /\ k \in DOMAIN allowance_contract_callers'
                    /\ allowance_contract_callers'[k] = allowance_contract_callers[k]]_vars

C32_Witness ==
  /\ call.op = "request-withdrawal"
  /\ Through(call)
  /\ ret = err_invalid_caller
  /\ burn_block_height > 0
  /\ \E key \in DOMAIN allowance_contract_callers :
       /\ key = [sender |-> call.tx_sender, contract_caller |-> call.contract_caller]
       /\ allowance_contract_callers[key].until_burn_ht = Some(burn_block_height)

\* C33: request ids are issued in sequence: a successful request-withdrawal
\* returns last-request-id + 1, an id no request was stored under before, and
\* makes it the last-request-id, so the k-th success returns k; a failed call
\* and every other call leave last-request-id and issue nothing, so an id is
\* not issued again after cancle-request; every stored request has an id
\* between 1 and last-request-id.
C33_IdsInSequence ==
  [][/\ call'.op = "request-withdrawal" =>
          IF ret'.k = "ok-uint"
          THEN /\ ret'.v = last_request_id + 1
               /\ last_request_id' = ret'.v
               /\ DOMAIN requests' = DOMAIN requests \cup {ret'.v}
               /\ ret'.v \notin DOMAIN requests
          ELSE last_request_id' = last_request_id /\ requests' = requests
     /\ call'.op # "request-withdrawal" =>
          (last_request_id' = last_request_id /\ DOMAIN requests' \subseteq DOMAIN requests)
     /\ DOMAIN requests \subseteq 1..last_request_id
     /\ DOMAIN requests' \subseteq 1..last_request_id']_vars

C33_Witness ==
  /\ call.op = "request-withdrawal"
  /\ ret = OkUint(MaxIssued)
  /\ last_request_id = MaxIssued
  /\ DOMAIN requests = {MaxIssued}

\* C34: in every state the total supply is the sum of the amounts recorded
\* in amounts-by-btc-tx (positive for mints, negative for burns) plus the sum
\* of the amounts recorded in amounts-by-request-id (negative).
C34_SupplyIsSumOfRecordedAmounts ==
  get_total_supply =
    OkUint(SumOver(amounts_by_btc_tx, DOMAIN amounts_by_btc_tx)
             + SumOver(amounts_by_request_id, DOMAIN amounts_by_request_id))

C34_Witness ==
  /\ sbtc_supply > 0
  /\ \E T \in DOMAIN amounts_by_btc_tx : amounts_by_btc_tx[T] > 0
  /\ \E id \in DOMAIN amounts_by_request_id : amounts_by_request_id[id] < 0

C31_CancelledByOwnerOnly ==
  [][(call'.op = "cancle-request" /\ call'.request_id \in DOMAIN requests) =>
       (call'.request_id \notin DOMAIN requests' =>
          call'.tx_sender = requests[call'.request_id].owner)]_vars

(***************************************************************************)
(* What holds of the calls next to the properties that fail.               *)
(***************************************************************************)
\* cancle-request deletes the request of the id it is called with and no
\* other, and only in a call it answers with the id
CancleDeletesTheRequestNamed ==
  [][call'.op = "cancle-request" =>
       /\ ret' = OkUint(call'.request_id) =>
            requests' = MapDelete(requests, call'.request_id)
       /\ ret' # OkUint(call'.request_id) => requests' = requests]_vars

\* two verify-merkle-proof calls with congruent indices of which neither
\* aborts return the same
CongruentIndexSameResultUnlessAbort ==
  (IsVmpCall /\ ret.k # "abort") =>
    \A j \in TxIndexes :
      j % Pow2(CallDepth) = call.tx_index % Pow2(CallDepth) =>
        LET r == verify_merkle_proof(call.txid, call.root, [CallProof EXCEPT !.tx_index = j])
        IN r.k = "abort" \/ r = ret

\* fulfill-send-request pays all recipients or changes nothing: when it
\* returns (ok true) every recipient has received the amounts listed for it,
\* the contract has paid the total and the request is deleted; otherwise
\* balances and requests are as before. It returns (ok true) for a funded
\* request in which every amount is positive and no recipient is the contract.
FulfilPaysAllOrNothing ==
  [][(call'.op = "fulfill-send-request"
        /\ RequestKey(call') \in DOMAIN send_many_requests) =>
       LET recipients == send_many_requests[RequestKey(call')]
           payable == /\ sbtc_balances[SendMany] >= Total(recipients)
                      /\ \A i \in 1..Len(recipients) :
                           recipients[i].sbtc_in_sats > 0 /\ recipients[i].to # SendMany
       IN /\ payable => ret' = OkTrue
          /\ ret' = OkTrue =>
               /\ \A p \in Accounts :
                    sbtc_balances'[p] =
                      sbtc_balances[p] + Listed(recipients, p)
                        - (IF p = SendMany THEN Total(recipients) ELSE 0)
               /\ RequestKey(call') \notin DOMAIN send_many_requests'
          /\ ret' # OkTrue =>
               (sbtc_balances' = sbtc_balances /\ send_many_requests' = send_many_requests)]_vars

\* trees of two or more leaves: the proof of every leaf verifies
TreeProofVerifiesFromTwoLeaves ==
  IsVmpCall =>
    \A n \in TreeSizes \ {1} : \A i \in 0..(n - 1) :
      FromTree(n, i, MerkleDepth(Tree(n))) => ret = Bool(TRUE)

\* was-txid-mined is (ok true) exactly when both checks are true, is never
\* (ok false), and is err u7 whenever the proof check returns false
WtmOkTrueIffBothChecks ==
  IsWtmCall =>
    /\ (ret = OkTrue) <=>
         (verify_block_header(debug_burn_header_hashes, call.header, call.height)
            /\ WtmProofVerifies)
    /\ ret # OkFalse
    /\ (/\ verify_block_header(debug_burn_header_hashes, call.header, call.height)
        /\ Len(call.txid) = HashLen
        /\ verify_merkle_proof(FullReverse(call.txid),
             SubSeq(call.header, block_header_merkle_root_start + 1,
                    block_header_merkle_root_end), CallProof) = Bool(FALSE))
         => ret = ERR_INVALID_MERKLE_PROOF

====
